---------------------------- MODULE Spec2Model ----------------------------
(***************************************************************************)
(* The layer scheme of the 1D snowpack model (pygem_eb/layers.py, class    *)
(* Layers) as a state machine.  The Layers object is the record `layers`,  *)
(* one field per attribute, the per-layer numpy arrays as sequences        *)
(* (python index i is sequence index i+1).  Floating point numbers are     *)
(* exact rationals <<n, d>> in lowest terms, d > 0; <<1, 0>>, <<-1, 0>> and *)
(* <<0, 0>> stand for numpy's inf, -inf and nan.                            *)
(* Smaller specifications follow it: addLayers with frames of several      *)
(* layers (SpecAddLayers), getGrainSize (SpecGrainSize), getLayers as a     *)
(* function of the configuration (SpecGetLayers), the scripts that run the  *)
(* model (SpecRun), Climate.check_ds (SpecClimate), initProfilesPiecewise   *)
(* (SpecProfile), the packing of the parameter runs (SpecPacking) and       *)
(* Climate.get_reanalysis (SpecFetch).                                      *)
(***************************************************************************)
EXTENDS Integers, Sequences, FiniteSets, TLC

VARIABLES layers, pc, layer, lastOp, snap, hrank, steps, mesh, job, climate,
          profile, packing, fetch

\* the variables of the Layers object and of the calls on it
layervars == <<layers, pc, layer, lastOp, snap, hrank, steps>>
\* the variables of the initial mesh, of a model run, of the forcing, of a
\* reference profile, of the packing of the runs and of the reanalysis fetch
others == <<mesh, job, climate, profile, packing, fetch>>
vars == <<layers, pc, layer, lastOp, snap, hrank, steps, mesh, job, climate,
          profile, packing, fetch>>

---------------------------------------------------------------------------
(* Rational arithmetic: what the float operators of the code compute,      *)
(* without rounding.                                                       *)

Abs(x) == IF x < 0 THEN -x ELSE x

RECURSIVE GCD(_, _)
GCD(a, b) == IF b = 0 THEN a ELSE GCD(b, a % b)

R(n, d) ==
    IF d = 0 THEN <<(IF n > 0 THEN 1 ELSE IF n < 0 THEN -1 ELSE 0), 0>>
    ELSE LET s == IF d < 0 THEN -1 ELSE 1
             g == GCD(Abs(n), Abs(d))
         IN  <<(s * n) \div g, (s * d) \div g>>

Zero == <<0, 1>>
IntR(n) == <<n, 1>>

AddR(a, b) ==
    IF a[2] = b[2] THEN R(a[1] + b[1], a[2])
    ELSE LET g == GCD(a[2], b[2])
         IN  R(a[1] * (b[2] \div g) + b[1] * (a[2] \div g), (a[2] \div g) * b[2])
NegR(a) == <<-a[1], a[2]>>
SubR(a, b) == AddR(a, NegR(b))
MulR(a, b) ==
    LET x == R(a[1], b[2])
        y == R(b[1], a[2])
    IN  R(x[1] * y[1], x[2] * y[2])
DivR(a, b) ==
    IF b[1] = 0 THEN R(a[1], 0)
    ELSE MulR(a, IF b[1] < 0 THEN <<-b[2], -b[1]>> ELSE <<b[2], b[1]>>)
LtR(a, b) == a[1] * b[2] < b[1] * a[2]
LeqR(a, b) == a[1] * b[2] <= b[1] * a[2]
GtR(a, b) == LtR(b, a)
GeqR(a, b) == LeqR(b, a)
\* python's floor of a finite rational
FloorR(a) == IF a[1] >= 0 THEN a[1] \div a[2] ELSE -((-a[1] + a[2] - 1) \div a[2])

---------------------------------------------------------------------------
(* numpy array primitives on sequences; i is the python (0-based) index.   *)

At(s, i) == s[i + 1]
SetAt(s, i, x) == [s EXCEPT ![i + 1] = x]
\* np.insert(s, i, x): x takes index i, the old entries i.. move down
Insert(s, i, x) == SubSeq(s, 1, i) \o <<x>> \o SubSeq(s, i + 1, Len(s))
\* np.delete(s, i)
Delete(s, i) == SubSeq(s, 1, i) \o SubSeq(s, i + 2, Len(s))
\* np.where(s == v)[0]
RECURSIVE WhereFrom(_, _, _)
WhereFrom(s, v, i) ==
    IF i >= Len(s) THEN <<>>
    ELSE (IF At(s, i) = v THEN <<i>> ELSE <<>>) \o WhereFrom(s, v, i + 1)
Where(s, v) == WhereFrom(s, v, 0)
RECURSIVE SumR(_)
SumR(s) == IF s = <<>> THEN Zero ELSE AddR(Head(s), SumR(Tail(s)))
Fill(n, x) == [k \in 1..n |-> x]
\* the element of a singleton; One({F(v) : v \in {e}}) is F(e) with e
\* evaluated once
One(S) == CHOOSE x \in S : TRUE

---------------------------------------------------------------------------
(* Configuration read from pygem_eb.input (eb_prms).                        *)

\* eb_prms.dz_toplayer [m]
dz_toplayer == <<1, 20>>
\* np.exp(k * eb_prms.layer_growth), with layer_growth = ln 2
RECURSIVE Pow2(_)
Pow2(k) == IF k = 0 THEN 1 ELSE 2 * Pow2(k - 1)
ExpGrowth(k) == IF k >= 0 THEN <<Pow2(k), 1>> ELSE <<1, Pow2(-k)>>
\* eb_prms.max_nlayers
max_nlayers == 5
\* eb_prms.density_firn, density_ice, density_fresh_snow [kg m-3]
density_firn == 700
density_ice == 900
density_fresh_snow == 100
\* eb_prms.fresh_grainsize [um], BC_freshsnow, dust_freshsnow
fresh_grainsize == <<109, 2>>
BC_freshsnow == 2
dust_freshsnow == 4

---------------------------------------------------------------------------
(* Derived properties.                                                      *)

\* 10 * np.exp(3.3 * k / 10), tabulated at tenths of porosity
ExpTab(k) ==
    CASE k <= -3 -> 4  [] k = -2 -> 5  [] k = -1 -> 7  [] k = 0 -> 10
      [] k = 1 -> 14   [] k = 2 -> 19  [] k = 3 -> 27  [] k = 4 -> 37
      [] k = 5 -> 52   [] k = 6 -> 72  [] k = 7 -> 101 [] k = 8 -> 140
      [] k = 9 -> 195  [] OTHER -> 271

\* one entry of irrwatercont for a layer above the first ice layer:
\* 0.0143*exp(3.3*porosity) in thousandths, irrwatersat in whole kg m-3
\* (rounded down); a porosity of 0 divides by zero, which numpy makes inf
IrrWaterOf(density, height) ==
    LET porosity == DivR(SubR(IntR(density_ice), density), IntR(density_ice))
        irrwaterfrac == (143 * ExpTab(FloorR(MulR(porosity, IntR(10))))) \div 100
        irrwatersat == (irrwaterfrac * FloorR(DivR(density, porosity))) \div 1000
    IN  IF porosity[1] = 0 THEN MulR(R(density[1], 0), height)
        ELSE MulR(IntR(irrwatersat), height)

\* Layers.getIrrWaterCont(density): the entries above the first ice layer, then
\* one zero per ice layer
getIrrWaterCont(s, density) ==
    LET dens == IF \E k \in DOMAIN density : density[k][1] = 0 /\ density[k][2] # 0
                THEN [k \in 1..Len(s.ldrymass) |-> DivR(s.ldrymass[k], s.lheight[k])]
                ELSE density
        n0 == IF s.ice_idx = <<>> THEN 0 ELSE s.ice_idx[1]
        m == IF Len(dens) < n0 THEN Len(dens) ELSE n0
    IN  [k \in 1..m |-> IrrWaterOf(dens[k], s.lheight[k])]
            \o Fill(Len(s.ice_idx), Zero)

\* ldepth: midpoint of each layer below the surface
DepthOf(lheight, n) ==
    [k \in 1..n |-> SubR(SumR(SubSeq(lheight, 1, k)), DivR(lheight[k], IntR(2)))]

\* the last step of updateLayerProperties: irrwatercont from the new densities
UpdateIrrWater(u) ==
    IF u.ice_idx = <<>> THEN [u EXCEPT !.err = "IndexError"]
    ELSE [u EXCEPT !.irrwatercont = getIrrWaterCont(u, u.ldensity)]

\* updateLayerProperties on an object without a pending exception
UpdateProperties(s) ==
    LET n == Len(s.lheight)
        t == [s EXCEPT !.nlayers = n,
                       !.snow_idx = Where(s.ltype, "snow"),
                       !.firn_idx = Where(s.ltype, "firn"),
                       !.ice_idx = Where(s.ltype, "ice"),
                       !.ldepth = DepthOf(s.lheight, n)]
    IN  IF Len(s.ldrymass) # n THEN [t EXCEPT !.err = "ValueError"]
        ELSE One({UpdateIrrWater(u) : u \in
                    {[t EXCEPT !.ldensity =
                         [k \in 1..n |-> DivR(s.ldrymass[k], s.lheight[k])]]}})

\* Layers.updateLayerProperties(), do = depth, density, irrwater
updateLayerProperties(s) ==
    One({IF v.err # "none" THEN v ELSE UpdateProperties(v) : v \in {s}})

---------------------------------------------------------------------------
(* Mutation primitives.                                                     *)

\* a faulty addLayers that puts the new layers under the column
appendLayers(s, layers_to_add) ==
    IF s.err # "none" THEN s
    ELSE updateLayerProperties(
           [s EXCEPT !.nlayers = s.nlayers + Len(layers_to_add.T),
                     !.ltemp = s.ltemp \o layers_to_add.T,
                     !.lwater = s.lwater \o layers_to_add.w,
                     !.lheight = s.lheight \o layers_to_add.h,
                     !.ltype = s.ltype \o layers_to_add.t,
                     !.ldrymass = s.ldrymass \o layers_to_add.drym,
                     !.lrefreeze = s.lrefreeze \o <<Zero>>,
                     !.lnewsnow = s.lnewsnow \o layers_to_add.drym,
                     !.grainsize = s.grainsize \o <<fresh_grainsize>>,
                     !.lBC = s.lBC \o <<IntR(BC_freshsnow)>>,
                     !.ldust = s.ldust \o <<IntR(dust_freshsnow)>>])

\* Layers.addLayers(layers_to_add): the batch is a record of the rows T, w, h,
\* t and drym, each a sequence with one entry per new layer
addLayers(s, layers_to_add) ==
    IF s.err # "none" THEN s
    ELSE updateLayerProperties(
           [s EXCEPT !.nlayers = s.nlayers + Len(layers_to_add.T),
                     !.ltemp = layers_to_add.T \o s.ltemp,
                     !.lwater = layers_to_add.w \o s.lwater,
                     !.lheight = layers_to_add.h \o s.lheight,
                     !.ltype = layers_to_add.t \o s.ltype,
                     !.ldrymass = layers_to_add.drym \o s.ldrymass,
                     !.lrefreeze = <<Zero>> \o s.lrefreeze,
                     !.lnewsnow = layers_to_add.drym \o s.lnewsnow,
                     !.grainsize = <<fresh_grainsize>> \o s.grainsize,
                     !.lBC = <<IntR(BC_freshsnow)>> \o s.lBC,
                     !.ldust = <<IntR(dust_freshsnow)>> \o s.ldust])

\* np.delete raises IndexError when the index is out of bounds
CanDelete(s, l) ==
    \A n \in {Len(s.ltemp), Len(s.lwater), Len(s.lheight), Len(s.ltype),
              Len(s.ldrymass), Len(s.lrefreeze), Len(s.lnewsnow),
              Len(s.grainsize), Len(s.lBC), Len(s.ldust)} : l < n

\* Layers.removeLayer(layer_to_remove)
removeLayer(s, l) ==
    IF s.err # "none" THEN s
    ELSE IF ~CanDelete(s, l) THEN [s EXCEPT !.err = "IndexError"]
    ELSE updateLayerProperties(
           [s EXCEPT !.nlayers = s.nlayers - 1,
                     !.ltemp = Delete(s.ltemp, l),
                     !.lwater = Delete(s.lwater, l),
                     !.lheight = Delete(s.lheight, l),
                     !.ltype = Delete(s.ltype, l),
                     !.ldrymass = Delete(s.ldrymass, l),
                     !.lrefreeze = Delete(s.lrefreeze, l),
                     !.lnewsnow = Delete(s.lnewsnow, l),
                     !.grainsize = Delete(s.grainsize, l),
                     !.lBC = Delete(s.lBC, l),
                     !.ldust = Delete(s.ldust, l)])

\* a faulty halving that loses mass: a split followed by a merge would then
\* return two thirds of the layer
Third(x) == DivR(x, IntR(3))

\* x / 2
Half(x) == DivR(x, IntR(2))
\* a[l] = a[l]/2 ; a = np.insert(a, l, a[l])
HalveInsert(a, l) == Insert(SetAt(a, l, Half(At(a, l))), l, Half(At(a, l)))
\* a = np.insert(a, l, a[l])
CopyInsert(a, l) == Insert(a, l, At(a, l))

\* the guard of splitLayer: is there room for one more layer
SplitAllowed(s) == (s.nlayers + 1) < max_nlayers

\* the arrays splitLayer halves, and the ones it copies
SplitHalved(s, l) ==
    [s EXCEPT !.lwater = HalveInsert(s.lwater, l),
              !.lheight = HalveInsert(s.lheight, l),
              !.ldrymass = HalveInsert(s.ldrymass, l),
              !.lrefreeze = HalveInsert(s.lrefreeze, l),
              !.lnewsnow = HalveInsert(s.lnewsnow, l),
              !.lBC = HalveInsert(s.lBC, l),
              !.ldust = HalveInsert(s.ldust, l)]
SplitCopied(s, l) ==
    [s EXCEPT !.nlayers = s.nlayers + 1,
              !.ltemp = CopyInsert(s.ltemp, l),
              !.ltype = CopyInsert(s.ltype, l),
              !.grainsize = CopyInsert(s.grainsize, l)]

\* Layers.splitLayer(layer_to_split)
splitLayer(s, l) ==
    IF s.err # "none" THEN s
    ELSE IF SplitAllowed(s)
         THEN IF ~CanDelete(s, l) THEN [s EXCEPT !.err = "IndexError"]
              ELSE updateLayerProperties(
                     One({SplitHalved(v, l) : v \in {SplitCopied(s, l)}}))
         ELSE updateLayerProperties(s)

\* a faulty mean that keeps the value of the lower layer
Lower2(a, l) == At(a, l + 1)

\* np.sum(a[l:l+2]) and np.mean(a[l:l+2])
Sum2(a, l) == AddR(At(a, l), At(a, l + 1))
Mean2(a, l) == DivR(Sum2(a, l), IntR(2))
\* np.sum(ldensity[l:l+2]*ldrymass[l:l+2]) / np.sum(ldrymass[l:l+2])
MassWeighted(dens, mass, l) ==
    DivR(AddR(MulR(At(dens, l), At(mass, l)), MulR(At(dens, l + 1), At(mass, l + 1))),
         Sum2(mass, l))

\* the slot l+1 of every array after the assignments of mergeLayers
MergeInto(s, l) ==
    [s EXCEPT !.ldensity = SetAt(s.ldensity, l + 1, MassWeighted(s.ldensity, s.ldrymass, l)),
              !.lwater = SetAt(s.lwater, l + 1, Sum2(s.lwater, l)),
              !.ltemp = SetAt(s.ltemp, l + 1, Mean2(s.ltemp, l)),
              !.lheight = SetAt(s.lheight, l + 1, Sum2(s.lheight, l)),
              !.ldrymass = SetAt(s.ldrymass, l + 1, Sum2(s.ldrymass, l)),
              !.lrefreeze = SetAt(s.lrefreeze, l + 1, Sum2(s.lrefreeze, l)),
              !.lnewsnow = SetAt(s.lnewsnow, l + 1, Sum2(s.lnewsnow, l)),
              !.grainsize = SetAt(s.grainsize, l + 1, Mean2(s.grainsize, l)),
              !.lBC = SetAt(s.lBC, l + 1, Mean2(s.lBC, l)),
              !.ldust = SetAt(s.ldust, l + 1, Mean2(s.ldust, l))]

\* an assignment to slot l+1 raises IndexError when the array is too short
CanMerge(s, l) ==
    /\ CanDelete(s, l + 1)
    /\ l + 1 < Len(s.ldensity)

\* Layers.mergeLayers(layer_to_merge)
mergeLayers(s, l) ==
    IF s.err # "none" THEN s
    ELSE IF ~CanMerge(s, l) THEN [s EXCEPT !.err = "IndexError"]
    ELSE One({removeLayer(v, l) : v \in {MergeInto(s, l)}})

---------------------------------------------------------------------------
(* Construction: Layers.__init__, getLayers and getTpw.                     *)

\* the csv profiles of getTpw as (depth, value) rows, both read with 'interp'
temp_data == << <<Zero, Zero>>, <<IntR(10), IntR(-10)>> >>
density_data == << <<Zero, IntR(200)>>, <<IntR(1), IntR(200)>> >>

\* np.interp(x, data[:,0], data[:,1])
RECURSIVE Interp(_, _)
Interp(x, data) ==
    IF LeqR(x, data[1][1]) THEN data[1][2]
    ELSE IF Len(data) = 1 THEN data[1][2]
    ELSE IF LeqR(x, data[2][1])
         THEN AddR(data[1][2],
                   MulR(SubR(data[2][2], data[1][2]),
                        DivR(SubR(x, data[1][1]), SubR(data[2][1], data[1][1]))))
         ELSE Interp(x, Tail(data))

\* the while loop of getLayers that appends snow layers
RECURSIVE SnowLoop(_, _)
SnowLoop(layerh, target) ==
    IF LtR(SumR(layerh), target)
    THEN SnowLoop(Append(layerh, MulR(dz_toplayer, ExpGrowth(Len(layerh)))), target)
    ELSE layerh

\* int(round(x, 0)): half to even
RoundR(x) ==
    LET f == FloorR(x)
        r == SubR(x, IntR(f))
    IN  IF LtR(r, <<1, 2>>) THEN f
        ELSE IF GtR(r, <<1, 2>>) THEN f + 1
        ELSE IF f % 2 = 0 THEN f ELSE f + 1

\* the firn layers of getLayers
FirnHeights(firn_depth) ==
    IF GtR(firn_depth, <<3, 4>>)
    THEN Fill(RoundR(firn_depth), DivR(firn_depth, IntR(RoundR(firn_depth))))
    ELSE IF GtR(firn_depth, Zero) THEN <<firn_depth>> ELSE <<>>

\* Layers.getLayers(sfi_depth) with eb_prms.icelayers = 1: heights and types
getLayers(sfi_depth) ==
    LET snow == SnowLoop(<<>>, sfi_depth[1])
        cut == SubR(SumR(snow), sfi_depth[1])
        snowh == SetAt(snow, Len(snow) - 1, SubR(At(snow, Len(snow) - 1), cut))
        firnh == FirnHeights(sfi_depth[2])
    IN  [layerh |-> snowh \o firnh \o <<sfi_depth[3]>>,
         layertype |-> Fill(Len(snowh), "snow") \o Fill(Len(firnh), "firn") \o <<"ice">>]

\* the densities of getTpw: snow from the profile, firn on a line from the
\* deepest snow layer to the ice, ice at density_ice
InitDensity(ltype, ldepth, sfi_depth) ==
    LET snow_idx == Where(ltype, "snow")
        ice_idx == Where(ltype, "ice")
        last_snow == At(snow_idx, Len(snow_idx) - 1)
        snowdens == [k \in 1..Len(snow_idx) |-> Interp(ldepth[k], density_data)]
        pslope == DivR(SubR(IntR(density_ice), snowdens[Len(snowdens)]),
                       SubR(At(ldepth, At(ice_idx, 0)), At(ldepth, last_snow)))
    IN  [k \in 1..Len(ltype) |->
            IF ltype[k] = "snow" THEN snowdens[k]
            ELSE IF ltype[k] = "firn"
                 THEN AddR(At(snowdens, last_snow),
                           MulR(pslope, SubR(ldepth[k], At(ldepth, last_snow))))
                 ELSE IntR(density_ice)]

\* Layers.__init__ for one bin
Construct(sfi_depth) ==
    LET g == getLayers(sfi_depth)
        n == Len(g.layerh)
        ldepth == DepthOf(g.layerh, n)
        ldensity == InitDensity(g.layertype, ldepth, sfi_depth)
        s0 == [nlayers |-> n,
               ltype |-> g.layertype,
               lheight |-> g.layerh,
               ldepth |-> ldepth,
               ltemp |-> [k \in 1..n |-> Interp(ldepth[k], temp_data)],
               ldensity |-> ldensity,
               lwater |-> Fill(n, Zero),
               ldrymass |-> [k \in 1..n |-> MulR(ldensity[k], g.layerh[k])],
               lrefreeze |-> Fill(n, Zero),
               lnewsnow |-> Fill(n, Zero),
               irrwatercont |-> <<>>,
               grainsize |-> [k \in 1..n |-> IF g.layertype[k] = "ice"
                                             THEN IntR(1500) ELSE fresh_grainsize],
               lBC |-> Fill(n, IntR(BC_freshsnow)),
               ldust |-> Fill(n, IntR(dust_freshsnow)),
               snow_idx |-> Where(g.layertype, "snow"),
               firn_idx |-> Where(g.layertype, "firn"),
               ice_idx |-> Where(g.layertype, "ice"),
               days_since_snowfall |-> 0,
               err |-> "none"]
    IN  [s0 EXCEPT !.irrwatercont = getIrrWaterCont(s0, ldensity)]

---------------------------------------------------------------------------
(* getLayers for any configuration: prms holds eb_prms.dz_toplayer, the     *)
(* factor np.exp(eb_prms.layer_growth) as a rational (growth) and           *)
(* eb_prms.icelayers.                                                       *)

\* np.exp(k * layer_growth)
RECURSIVE PowR(_, _)
PowR(r, k) == IF k = 0 THEN IntR(1) ELSE MulR(r, PowR(r, k - 1))

\* a snow loop that goes on while snow_depth <= sfi_depth[0]
RECURSIVE SnowLayersUpTo(_, _, _)
SnowLayersUpTo(prms, layerh, target) ==
    IF LeqR(SumR(layerh), target)
    THEN One({ SnowLayersUpTo(prms, h, target) :
                 h \in {Append(layerh,
                               MulR(prms.dz_toplayer, PowR(prms.growth, Len(layerh))))} })
    ELSE layerh

\* the while loop that appends snow layers until snow_depth >= sfi_depth[0]
RECURSIVE SnowLayers(_, _, _)
SnowLayers(prms, layerh, target) ==
    IF LtR(SumR(layerh), target)
    THEN One({ SnowLayers(prms, h, target) :
                 h \in {Append(layerh,
                               MulR(prms.dz_toplayer, PowR(prms.growth, Len(layerh))))} })
    ELSE layerh

\* layerh[-1] = layerh[-1] - excess
Truncate(layerh, excess) ==
    SetAt(layerh, Len(layerh) - 1, SubR(At(layerh, Len(layerh) - 1), excess))

\* the while loop that appends ice layers; ice_depth grows by the sum of
\* all ice heights appended so far on every pass
RECURSIVE IceLoop(_, _, _, _, _)
IceLoop(prms, iceh, layeridx, ice_depth, target) ==
    IF LtR(ice_depth, target)
    THEN One({ One({ IceLoop(prms, h, layeridx + 1, d, target) :
                       d \in {AddR(ice_depth, SumR(h))} }) :
                 h \in {Append(iceh,
                               MulR(prms.dz_toplayer, PowR(prms.growth, layeridx)))} })
    ELSE [iceh |-> iceh, ice_depth |-> ice_depth]

\* the ice layers appended to the snow and firn layers above
IceLayers(prms, above, nsnow, ice_target) ==
    IF prms.icelayers = 1 THEN above \o <<ice_target>>
    ELSE LET loop == IceLoop(prms, <<>>, nsnow, Zero, ice_target)
         IN  Truncate(above \o loop.iceh, SubR(loop.ice_depth, ice_target))

\* layerz: the depth of the middle of each layer
LayerZ(layerh) ==
    [i \in 1..Len(layerh) |->
        SubR(SumR(SubSeq(layerh, 1, i)), DivR(layerh[i], IntR(2)))]

\* what getLayers returns when it returns
MeshOf(prms, sfi_depth, snow) ==
    LET snowh == Truncate(snow, SubR(SumR(snow), sfi_depth[1]))
        firnh == FirnHeights(sfi_depth[2])
        layerh == IceLayers(prms, snowh \o firnh, Len(snowh), sfi_depth[3])
    IN  [err |-> "none",
         layerh |-> layerh,
         layerz |-> LayerZ(layerh),
         layertype |-> Fill(Len(snowh), "snow") \o Fill(Len(firnh), "firn")
                         \o Fill(Len(layerh) - Len(snowh) - Len(firnh), "ice")]

\* Layers.getLayers(sfi_depth) under the configuration prms; layerh[-1]
\* after the snow loop raises IndexError when the loop appended nothing
getLayersFor(prms, sfi_depth) ==
    LET snow == SnowLayers(prms, <<>>, sfi_depth[1])
    IN  IF snow = <<>>
        THEN [err |-> "IndexError", layerh |-> <<>>, layerz |-> <<>>,
              layertype |-> <<>>]
        ELSE MeshOf(prms, sfi_depth, snow)

---------------------------------------------------------------------------
(* Resolution control, phase transition and snowfall.                       *)

min_heights(i) == DivR(MulR(dz_toplayer, ExpGrowth(i - 1)), IntR(2))
max_heights(i) == MulR(MulR(dz_toplayer, ExpGrowth(i - 1)), IntR(2))

\* a faulty loop body that merges an undersized layer into whatever lies below
MergeAnyBranch(s, i) ==
    IF At(s.ltype, i) \in {"snow", "firn"}
    THEN IF LtR(At(s.lheight, i), min_heights(i))
         THEN IF i + 1 >= Len(s.ltype) THEN "IndexError" ELSE "merge"
         ELSE IF GtR(At(s.lheight, i), max_heights(i)) THEN "split" ELSE "none"
    ELSE "none"

\* what one pass of the while loop of updateLayers does at index i:
\* "merge", "split", "IndexError" or "none"
UpdateLayersBranch(s, i) ==
    IF At(s.ltype, i) \in {"snow", "firn"}
    THEN IF LtR(At(s.lheight, i), min_heights(i))
         THEN IF i + 1 >= Len(s.ltype) THEN "IndexError"
              ELSE IF At(s.ltype, i) = At(s.ltype, i + 1) THEN "merge"
              ELSE "none"
         ELSE IF GtR(At(s.lheight, i), max_heights(i)) THEN "split" ELSE "none"
    ELSE "none"

\* the index the loop of updateLayers looks at next: it stays only after a split
UpdateLayersNext(branch, i) == IF branch = "split" THEN i ELSE i + 1

\* one pass of the while loop of Layers.updateLayers at index i
updateLayersPass(s, i) ==
    LET b == UpdateLayersBranch(s, i)
    IN  CASE b = "merge" -> mergeLayers(s, i)
          [] b = "split" -> splitLayer(s, i)
          [] b = "IndexError" -> [s EXCEPT !.err = "IndexError"]
          [] OTHER -> s

\* a faulty classification that turns light firn back into snow
DemoteBranch(s, i) ==
    IF LtR(At(s.ldensity, i), IntR(density_firn)) /\ At(s.ltype, i) = "firn"
    THEN "snow"
    ELSE "none"

\* what one pass of the while loop of updateLayerTypes does at index i
UpdateTypesBranch(s, i) ==
    IF GeqR(At(s.ldensity, i), IntR(density_firn)) /\ At(s.ltype, i) = "snow"
    THEN "firn"
    ELSE IF GeqR(At(s.ldensity, i), IntR(density_ice)) /\ At(s.ltype, i) = "firn"
         THEN "ice"
         ELSE "none"

\* the density a promoted layer is pinned to
PinnedDensity(type) == IF type = "firn" THEN density_firn ELSE density_ice

\* one pass of the while loop of Layers.updateLayerTypes at index i
updateLayerTypesPass(s, i) ==
    LET b == UpdateTypesBranch(s, i)
        t == [s EXCEPT !.ltype = SetAt(s.ltype, i, b),
                       !.ldensity = SetAt(s.ldensity, i, IntR(PinnedDensity(b)))]
    IN  IF b = "none" THEN s
        ELSE IF i + 1 >= Len(s.ltype) THEN [t EXCEPT !.err = "IndexError"]
        ELSE IF At(s.ltype, i + 1) = b THEN One({mergeLayers(v, i) : v \in {t}})
        ELSE t

\* does the pass at index i merge the promoted layer into the one below
UpdateTypesMerges(s, i) ==
    /\ UpdateTypesBranch(s, i) # "none"
    /\ i + 1 < Len(s.ltype)
    /\ At(s.ltype, i + 1) = UpdateTypesBranch(s, i)

\* faulty conditions that forget the time since the last snowfall
YoungSnowConds(s, new_density) ==
    \/ At(s.ltype, 0) \in {"ice", "firn"}
    \/ GtR(At(s.ldensity, 0), IntR(new_density * 3))

\* the new_layer_conds of addSnow
\* (days_since_snowfall threshold of 10 days)
NewLayerConds(s, new_density) ==
    \/ At(s.ltype, 0) = "ice"
    \/ At(s.ltype, 0) = "firn"
    \/ GtR(At(s.ldensity, 0), IntR(new_density * 3))
    \/ s.days_since_snowfall > 10

\* the else branch of addSnow, before the split: snow is mixed into layer 0
MixSnow(s, snowfall, airtemp, new_density) ==
    LET new_layermass == AddR(At(s.ldrymass, 0), snowfall)
    IN  [s EXCEPT
          !.lnewsnow = SetAt(s.lnewsnow, 0, snowfall),
          !.ldensity = SetAt(s.ldensity, 0,
              DivR(AddR(MulR(At(s.ldensity, 0), At(s.ldrymass, 0)),
                        MulR(IntR(new_density), snowfall)), new_layermass)),
          !.ltemp = SetAt(s.ltemp, 0,
              DivR(AddR(MulR(At(s.ltemp, 0), At(s.ldrymass, 0)),
                        MulR(airtemp, snowfall)), new_layermass)),
          !.ldrymass = SetAt(s.ldrymass, 0, new_layermass),
          !.lheight = SetAt(s.lheight, 0,
              AddR(At(s.lheight, 0), DivR(snowfall, IntR(new_density))))]

\* a faulty frame whose layer is half as thick as its mass requires
ThinLayer(snowfall, airtemp, new_density) ==
    [T |-> <<airtemp>>, w |-> <<Zero>>, h |-> <<DivR(snowfall, IntR(new_density * 2))>>,
     t |-> <<"snow">>, drym |-> <<snowfall>>]

\* the one-row frame addSnow builds for a new layer
NewLayer(snowfall, airtemp, new_density) ==
    [T |-> <<airtemp>>, w |-> <<Zero>>, h |-> <<DivR(snowfall, IntR(new_density))>>,
     t |-> <<"snow">>, drym |-> <<snowfall>>]

\* the top layer has grown past 1.5 times dz_toplayer
TopOversized(s) == GtR(At(s.lheight, 0), MulR(dz_toplayer, <<3, 2>>))

\* Layers.addSnow(snowfall, airtemp, new_density): the object afterwards
addSnow(s, snowfall, airtemp, new_density) ==
    IF s.err # "none" THEN s
    ELSE IF NewLayerConds(s, new_density)
    THEN updateLayerProperties(
           addLayers(s, NewLayer(snowfall, airtemp, new_density)))
    ELSE updateLayerProperties(
           One({IF TopOversized(m) THEN splitLayer(m, 0) ELSE m :
                   m \in {MixSnow(s, snowfall, airtemp, new_density)}}))

\* the value addSnow returns (store_surface)
addSnowReturns(s, new_density) == NewLayerConds(s, new_density)

---------------------------------------------------------------------------
(* The state machine.  A call of a primitive or of addSnow is one step; the  *)
(* two while loops run one pass per step, `layer` being the loop variable    *)
(* and pc the loop that is running.  lastOp, snap and hrank are history      *)
(* variables: the last call, the object before the last split, and for each  *)
(* layer the highest phase (0 snow, 1 firn, 2 ice) it has been in.           *)

\* bounds of the model
MaxSteps == 3

\* inputs of the calls
Configs ==
    { <<sd, c[1], c[2]>> : sd \in {<<1, 20>>, <<1, 10>>},
                           c \in { <<Zero, <<1, 20>>>>, <<<<1, 2>>, <<1, 20>>>> } }
Snowfalls == {IntR(5), <<1, 2>>}
AirTemps == {IntR(-5)}
TargetDensities == {800, 1000}
WaterAmounts == {<<1, 2>>}
RefreezeAmounts == {IntR(1)}

Rank(type) == CASE type = "snow" -> 0 [] type = "firn" -> 1 [] OTHER -> 2
Max(a, b) == IF a >= b THEN a ELSE b
\* the history of each layer, brought up to its present type
Carry(h, s) ==
    [k \in 1..Len(s.ltype) |->
        IF k \in DOMAIN h THEN Max(h[k], Rank(s.ltype[k])) ELSE Rank(s.ltype[k])]
\* the history of the layer that survives a merge of l into l+1
Absorb(h, l) == Delete(SetAt(h, l + 1, Max(At(h, l), At(h, l + 1))), l)

Op(o, a, r) == [op |-> o, arg |-> a, ret |-> r]

Init ==
    /\ \E c \in Configs : layers = Construct(c)
    /\ pc = "idle"
    /\ layer = 0
    /\ lastOp = Op("init", 0, "")
    /\ snap = <<>>
    /\ hrank = Carry(<<>>, layers)
    /\ steps = 0
    /\ mesh = <<>>
    /\ job = <<>>
    /\ climate = <<>>
    /\ profile = <<>>
    /\ packing = <<>>
    /\ fetch = <<>>

Callable == pc = "idle" /\ layers.err = "none" /\ steps < MaxSteps

AddSnow ==
    /\ Callable
    /\ \E snowfall \in Snowfalls, airtemp \in AirTemps :
         /\ layers' = addSnow(layers, snowfall, airtemp, density_fresh_snow)
         /\ lastOp' = Op("addSnow", 0,
                IF addSnowReturns(layers, density_fresh_snow) THEN "True" ELSE "False")
    /\ hrank' = Carry(IF Len(layers'.ltype) > Len(layers.ltype)
                      THEN <<0>> \o hrank ELSE hrank, layers')
    /\ steps' = steps + 1
    /\ snap' = <<>>
    /\ UNCHANGED <<pc, layer>>
    /\ UNCHANGED others

AddLayers ==
    /\ Callable
    /\ \E snowfall \in Snowfalls, airtemp \in AirTemps :
         layers' = addLayers(layers, NewLayer(snowfall, airtemp, density_fresh_snow))
    /\ lastOp' = Op("addLayers", 0, "")
    /\ hrank' = Carry(<<0>> \o hrank, layers')
    /\ steps' = steps + 1
    /\ snap' = <<>>
    /\ UNCHANGED <<pc, layer>>
    /\ UNCHANGED others

SplitLayer ==
    /\ Callable
    /\ \E l \in 0..(layers.nlayers - 1) :
         /\ layers' = splitLayer(layers, l)
         /\ lastOp' = Op("splitLayer", l, IF SplitAllowed(layers) THEN "split" ELSE "skipped")
         /\ hrank' = Carry(IF SplitAllowed(layers) THEN CopyInsert(hrank, l) ELSE hrank,
                           layers')
    /\ snap' = IF SplitAllowed(layers) THEN <<layers>> ELSE <<>>
    /\ steps' = steps + 1
    /\ UNCHANGED <<pc, layer>>
    /\ UNCHANGED others

MergeLayers ==
    /\ Callable
    /\ \E l \in 0..(layers.nlayers - 2) :
         /\ layers' = mergeLayers(layers, l)
         /\ lastOp' = Op("mergeLayers", l,
                IF lastOp = Op("splitLayer", l, "split") THEN "afterSplit" ELSE "")
         /\ hrank' = Carry(Delete(hrank, l), layers')
         /\ snap' = IF lastOp = Op("splitLayer", l, "split") THEN snap ELSE <<>>
    /\ steps' = steps + 1
    /\ UNCHANGED <<pc, layer>>
    /\ UNCHANGED others

UpdateLayersCall ==
    /\ Callable
    /\ pc' = "updateLayers"
    /\ layer' = 0
    /\ lastOp' = Op("updateLayers", 0, "call")
    /\ steps' = steps + 1
    /\ snap' = <<>>
    /\ UNCHANGED <<layers, hrank>>
    /\ UNCHANGED others

UpdateLayersPass ==
    /\ pc = "updateLayers"
    /\ layers.err = "none"
    /\ layer < layers.nlayers
    /\ layers' = updateLayersPass(layers, layer)
    /\ layer' = UpdateLayersNext(UpdateLayersBranch(layers, layer), layer)
    /\ lastOp' = Op("updateLayers", layer, UpdateLayersBranch(layers, layer))
    /\ hrank' = Carry(CASE UpdateLayersBranch(layers, layer) = "merge" -> Absorb(hrank, layer)
                        [] UpdateLayersBranch(layers, layer) = "split" /\ SplitAllowed(layers)
                             -> CopyInsert(hrank, layer)
                        [] OTHER -> hrank, layers')
    /\ UNCHANGED <<pc, snap, steps>>
    /\ UNCHANGED others

UpdateLayersReturn ==
    /\ pc = "updateLayers"
    /\ layers.err = "none"
    /\ layer >= layers.nlayers
    /\ pc' = "idle"
    /\ lastOp' = Op("updateLayers", layer, "return")
    /\ UNCHANGED <<layers, layer, snap, hrank, steps>>
    /\ UNCHANGED others

UpdateLayerTypesCall ==
    /\ Callable
    /\ pc' = "updateLayerTypes"
    /\ layer' = 0
    /\ lastOp' = Op("updateLayerTypes", 0, "call")
    /\ steps' = steps + 1
    /\ snap' = <<>>
    /\ UNCHANGED <<layers, hrank>>
    /\ UNCHANGED others

UpdateLayerTypesPass ==
    /\ pc = "updateLayerTypes"
    /\ layers.err = "none"
    /\ layer < layers.nlayers
    /\ layers' = updateLayerTypesPass(layers, layer)
    /\ layer' = IF UpdateTypesBranch(layers, layer) = "none" THEN layer + 1 ELSE layer
    /\ lastOp' = Op("updateLayerTypes", layer,
            IF UpdateTypesMerges(layers, layer) THEN "merge"
            ELSE UpdateTypesBranch(layers, layer))
    /\ hrank' = Carry(IF UpdateTypesMerges(layers, layer)
                      THEN Absorb(SetAt(hrank, layer,
                                 Max(At(hrank, layer), Rank(UpdateTypesBranch(layers, layer)))),
                                  layer)
                      ELSE hrank, layers')
    /\ UNCHANGED <<pc, snap, steps>>
    /\ UNCHANGED others

UpdateLayerTypesReturn ==
    /\ pc = "updateLayerTypes"
    /\ layers.err = "none"
    /\ layer >= layers.nlayers
    /\ pc' = "idle"
    /\ lastOp' = Op("updateLayerTypes", layer, "return")
    /\ UNCHANGED <<layers, layer, snap, hrank, steps>>
    /\ UNCHANGED others

---------------------------------------------------------------------------
(* The rest of the time step, which lives outside layers.py: compaction,    *)
(* percolation and refreezing write the arrays of the object directly, and  *)
(* the mass balance keeps days_since_snowfall.                              *)

\* compaction of a snow or firn layer to a higher density at constant mass
Densify ==
    /\ Callable
    /\ \E l \in 0..(layers.nlayers - 1), d \in TargetDensities :
         /\ \/ At(layers.ltype, l) = "snow" /\ d >= density_firn /\ d < density_ice
            \/ At(layers.ltype, l) = "firn" /\ d >= density_ice
         /\ LtR(At(layers.ldensity, l), IntR(d))
         /\ layers' = [layers EXCEPT
                !.lheight = SetAt(layers.lheight, l, DivR(At(layers.ldrymass, l), IntR(d))),
                !.ldensity = SetAt(layers.ldensity, l, IntR(d))]
         /\ lastOp' = Op("densify", l, "")
    /\ hrank' = hrank
    /\ steps' = steps + 1
    /\ snap' = <<>>
    /\ UNCHANGED <<pc, layer>>
    /\ UNCHANGED others

\* liquid water retained in a snow or firn layer, within its capacity
Percolate ==
    /\ Callable
    /\ \E l \in 0..(layers.nlayers - 1), w \in WaterAmounts :
         /\ At(layers.ltype, l) \in {"snow", "firn"}
         /\ l < Len(layers.irrwatercont)
         /\ LeqR(w, At(layers.irrwatercont, l))
         /\ layers' = [layers EXCEPT !.lwater = SetAt(layers.lwater, l, w)]
         /\ lastOp' = Op("percolate", l, "")
    /\ hrank' = hrank
    /\ steps' = steps + 1
    /\ snap' = <<>>
    /\ UNCHANGED <<pc, layer>>
    /\ UNCHANGED others

\* part of the dry mass of a layer recorded as refrozen water
Refreeze ==
    /\ Callable
    /\ \E l \in 0..(layers.nlayers - 1), r \in RefreezeAmounts :
         /\ At(layers.ltype, l) \in {"snow", "firn"}
         /\ LeqR(r, At(layers.ldrymass, l))
         /\ At(layers.lrefreeze, l) # r
         /\ layers' = [layers EXCEPT !.lrefreeze = SetAt(layers.lrefreeze, l, r)]
         /\ lastOp' = Op("refreeze", l, "")
    /\ hrank' = hrank
    /\ steps' = steps + 1
    /\ snap' = <<>>
    /\ UNCHANGED <<pc, layer>>
    /\ UNCHANGED others

\* more than 10 days pass without snowfall
Elapse ==
    /\ Callable
    /\ layers.days_since_snowfall = 0
    /\ layers' = [layers EXCEPT !.days_since_snowfall = 11]
    /\ lastOp' = Op("elapse", 0, "")
    /\ hrank' = hrank
    /\ steps' = steps + 1
    /\ snap' = <<>>
    /\ UNCHANGED <<pc, layer>>
    /\ UNCHANGED others

Next ==
    \/ AddLayers
    \/ AddSnow
    \/ SplitLayer
    \/ MergeLayers
    \/ UpdateLayersCall
    \/ UpdateLayersPass
    \/ UpdateLayersReturn
    \/ UpdateLayerTypesCall
    \/ UpdateLayerTypesPass
    \/ UpdateLayerTypesReturn
    \/ Densify
    \/ Percolate
    \/ Refreeze
    \/ Elapse

Spec == Init /\ [][Next]_vars

---------------------------------------------------------------------------
(* addLayers on its own, called with frames of one and of two new layers.   *)

\* the frame with the columns of a above those of b
JoinFrames(a, b) ==
    [T |-> a.T \o b.T, w |-> a.w \o b.w, h |-> a.h \o b.h, t |-> a.t \o b.t,
     drym |-> a.drym \o b.drym]

\* layers_to_add: one or two fully specified snow layers
Frames ==
    { NewLayer(sf, at, density_fresh_snow) : sf \in Snowfalls, at \in AirTemps }
      \cup { JoinFrames(NewLayer(sf1, at, density_fresh_snow),
                        NewLayer(sf2, at, density_fresh_snow)) :
                sf1 \in Snowfalls, sf2 \in Snowfalls, at \in AirTemps }

AddLayersFrame ==
    /\ Callable
    /\ \E layers_to_add \in Frames :
         /\ layers' = addLayers(layers, layers_to_add)
         /\ lastOp' = Op("addLayers", Len(layers_to_add.T), "")
         /\ hrank' = Carry(Fill(Len(layers_to_add.T), 0) \o hrank, layers')
    /\ steps' = steps + 1
    /\ snap' = <<>>
    /\ UNCHANGED <<pc, layer>>
    /\ UNCHANGED others

NextAddLayers == AddLayersFrame

SpecAddLayers == Init /\ [][NextAddLayers]_vars

---------------------------------------------------------------------------
(* Grain size metamorphism: Layers.getGrainSize, called between the other   *)
(* steps of a time step.  The dry growth rate comes from a lookup table or  *)
(* a random forest read from files outside src/, and the wet growth rate    *)
(* holds a factor pi: the call takes the dry growth of the step as an       *)
(* input (dry) and the wet growth of a layer that holds liquid water as     *)
(* another (wet); a layer without liquid water has no wet growth.           *)

\* eb_prms.max_pen_depth
max_pen_depth == <<1, 2>>

DryGrowths == {Zero, IntR(1)}
WetGrowths == {<<1, 2>>}

\* bins = np.arange(nlayers)[np.where(ldepth < max_pen_depth)[0]]
Bins(s) == { i \in 0..(s.nlayers - 1) : LtR(At(s.ldepth, i), max_pen_depth) }

\* T[1] and dz[1] of the surface gradient need two bins; dTdz[bins] and
\* T[bins] index arrays of len(bins) entries with the values of bins
GradientIndexable(bins) ==
    /\ Cardinality(bins) >= 2
    /\ \A i \in bins : i < Cardinality(bins)

\* (g+drdry+drwet)*f_old + 54.5*f_new + 1500*f_rfz of layer i
Metamorphosed(s, i, dry, wet) ==
    LET m == At(s.ldrymass, i)
        refreeze == At(s.lrefreeze, i)
        new_snow == At(s.lnewsnow, i)
        old_snow == SubR(SubR(m, refreeze), new_snow)
        f_old == DivR(old_snow, m)
        f_new == DivR(new_snow, m)
        f_rfz == DivR(refreeze, m)
        f_liq == DivR(At(s.lwater, i), AddR(At(s.lwater, i), m))
        drwet == IF f_liq = Zero THEN Zero ELSE wet
        g == At(s.grainsize, i)
    IN  AddR(AddR(MulR(AddR(AddR(g, dry), drwet), f_old),
                  MulR(<<109, 2>>, f_new)),
             MulR(IntR(1500), f_rfz))

\* self.grainsize[idx] = value
Assign(a, idx, value) ==
    [k \in 1..Len(a) |-> IF \E j \in 1..Len(idx) : idx[j] = k - 1 THEN value ELSE a[k]]

getGrainSize(s, dry, wet) ==
    IF Len(s.snow_idx) > 0
    THEN IF ~GradientIndexable(Bins(s))
         THEN [s EXCEPT !.err = "IndexError"]
         ELSE [s EXCEPT !.grainsize =
                  [k \in 1..Len(s.grainsize) |->
                      IF (k - 1) \in Bins(s)
                      THEN Metamorphosed(s, k - 1, dry, wet)
                      ELSE s.grainsize[k]]]
    ELSE IF Len(s.firn_idx) > 0
    THEN [s EXCEPT !.grainsize = Assign(s.grainsize, s.firn_idx, IntR(1000))]
    ELSE [s EXCEPT !.grainsize = Assign(s.grainsize, s.ice_idx, IntR(1500))]

GetGrainSize ==
    /\ Callable
    /\ \E dry \in DryGrowths, wet \in WetGrowths :
         /\ layers' = getGrainSize(layers, dry, wet)
         /\ lastOp' = Op("getGrainSize", 0, "")
    /\ hrank' = hrank
    /\ steps' = steps + 1
    /\ snap' = <<>>
    /\ UNCHANGED <<pc, layer>>
    /\ UNCHANGED others

NextGrainSize ==
    \/ GetGrainSize
    \/ AddSnow
    \/ Percolate
    \/ Refreeze
    \/ Densify
    \/ UpdateLayerTypesCall
    \/ UpdateLayerTypesPass
    \/ UpdateLayerTypesReturn

SpecGrainSize == Init /\ [][NextGrainSize]_vars

---------------------------------------------------------------------------
(* The initial mesh on its own: getLayers applied to the depths of a bin    *)
(* under a configuration, both drawn from small sets.  mesh holds the call: *)
(* its configuration, its argument and, once it has returned, its result.   *)

\* the Layers object is not in use
LayersUnused ==
    /\ layers = <<>>
    /\ pc = "idle"
    /\ layer = 0
    /\ lastOp = Op("none", 0, "")
    /\ snap = <<>>
    /\ hrank = <<>>
    /\ steps = 0

\* eb_prms.icelayers: 1 is a single ice layer, anything else several
MeshPrms ==
    { [dz_toplayer |-> b, growth |-> r, icelayers |-> m] :
        b \in {<<1, 20>>, <<1, 10>>}, r \in {IntR(1), <<3, 2>>, IntR(2)}, m \in {1, 2} }
\* snow, firn and ice depths of a bin [m]
MeshDepths ==
    { <<sd, fd, id>> : sd \in {R(k, 20) : k \in 0..12},
                       fd \in {Zero, <<1, 2>>, IntR(2)},
                       id \in {<<1, 20>>, <<1, 2>>} }

InitGetLayers ==
    /\ LayersUnused
    /\ \E prms \in MeshPrms, sfi_depth \in MeshDepths :
         mesh = [prms |-> prms, sfi_depth |-> sfi_depth, out |-> <<>>]
    /\ job = <<>>
    /\ climate = <<>>
    /\ profile = <<>>
    /\ packing = <<>>
    /\ fetch = <<>>

GetLayers ==
    /\ mesh.out = <<>>
    /\ mesh' = [mesh EXCEPT !.out = <<getLayersFor(mesh.prms, mesh.sfi_depth)>>]
    /\ UNCHANGED <<layervars, job, climate, profile, packing, fetch>>

NextGetLayers == GetLayers

SpecGetLayers == InitGetLayers /\ [][NextGetLayers]_vars

---------------------------------------------------------------------------
(* The scripts that run the model: run_model_parallel of                    *)
(* param_set_parallel.py and of gulkana_2024runs.py, and run_model of       *)
(* run_simulation_eb.py.  job is one call: the script (path), the inputs    *)
(* it loops over, the statement of the run it is at, and for every input    *)
(* whether its output file is on disk (exists) and whether its last attempt *)
(* raised an exception (failed).  mb.massBalance is not in src/; it is      *)
(* taken to create the output file when it is constructed with              *)
(* args.store_data, which is what the os.remove of the except clause and    *)
(* the comment above add_attrs in param_set_parallel.py rely on.            *)

Paths == {"param_set_parallel", "gulkana_2024runs", "run_simulation_eb"}

\* the statements of one run, in order
Statements(path, store_data) ==
    CASE path = "param_set_parallel" ->
            <<"massBalance", "add_attrs", "main", "add_vars", "add_basic_attrs">>
      [] path = "gulkana_2024runs" ->
            <<"massBalance", "main", "add_vars", "add_basic_attrs", "add_attrs">>
      [] OTHER ->
            IF store_data
            THEN <<"massBalance", "main", "add_vars", "add_basic_attrs", "add_attrs",
                   "get_output">>
            ELSE <<"massBalance", "main">>

\* the statement that writes the output file to disk: the constructor of
\* mb.massBalance, when data is stored
CreatesFile(statement, store_data) == statement = "massBalance" /\ store_data

\* the condition of the while loop of param_set_parallel.run_model_parallel
RunNeeded(j) == ~j.exists[j.input] /\ j.n_iters <= 5

\* the numbers of inputs a call loops over; run_model runs one
InputCounts(path) == IF path = "run_simulation_eb" THEN {1} ELSE {1, 2}

\* args.store_data: forced by the two parallel scripts, a command line
\* switch of run_simulation_eb
StoreData(path) == IF path = "run_simulation_eb" THEN BOOLEAN ELSE {TRUE}

\* output files on disk before the call: only a repeated parameter run
\* finds files of an earlier run
FilesBefore(path, n) ==
    IF path = "param_set_parallel" THEN [1..n -> BOOLEAN] ELSE {[k \in 1..n |-> FALSE]}

InitRun ==
    /\ LayersUnused
    /\ mesh = <<>>
    /\ climate = <<>>
    /\ profile = <<>>
    /\ packing = <<>>
    /\ fetch = <<>>
    /\ \E path \in Paths :
         \E store_data \in StoreData(path), n \in InputCounts(path) :
           \E exists \in FilesBefore(path, n) :
             job = [path |-> path, store_data |-> store_data, n |-> n, input |-> 1,
                    pc |-> "loop", stmt |-> 0, n_iters |-> 0,
                    exists |-> exists, failed |-> [k \in 1..n |-> FALSE]]

\* a run of the current input begins
BeginRun ==
    /\ job.pc = "loop"
    /\ job.input <= job.n
    /\ job.path = "param_set_parallel" => RunNeeded(job)
    /\ job' = [job EXCEPT !.pc = "try", !.stmt = 1, !.n_iters = job.n_iters + 1,
                          !.failed[job.input] = FALSE]
    /\ UNCHANGED <<layervars, mesh, climate, profile, packing, fetch>>

\* the while loop of param_set_parallel ends for the current input
NextInput ==
    /\ job.pc = "loop"
    /\ job.input <= job.n
    /\ job.path = "param_set_parallel"
    /\ ~RunNeeded(job)
    /\ job' = [job EXCEPT !.input = job.input + 1, !.n_iters = 0]
    /\ UNCHANGED <<layervars, mesh, climate, profile, packing, fetch>>

\* the current statement of the run completes
Statement ==
    /\ job.pc = "try"
    /\ job' = [job EXCEPT
            !.exists[job.input] =
                IF CreatesFile(At(Statements(job.path, job.store_data), job.stmt - 1),
                               job.store_data)
                THEN TRUE ELSE job.exists[job.input],
            !.stmt = IF job.stmt < Len(Statements(job.path, job.store_data))
                     THEN job.stmt + 1 ELSE 0,
            !.pc = IF job.stmt < Len(Statements(job.path, job.store_data))
                   THEN "try" ELSE "loop",
            !.input = IF job.stmt < Len(Statements(job.path, job.store_data))
                         \/ job.path = "param_set_parallel"
                      THEN job.input ELSE job.input + 1]
    /\ UNCHANGED <<layervars, mesh, climate, profile, packing, fetch>>

\* the current statement raises an exception: caught by the except clause
\* of param_set_parallel, leaving the function in the other two scripts
Raise ==
    /\ job.pc = "try"
    /\ job' = [job EXCEPT !.failed[job.input] = TRUE,
                          !.pc = IF job.path = "param_set_parallel"
                                 THEN "except" ELSE "raised"]
    /\ UNCHANGED <<layervars, mesh, climate, profile, packing, fetch>>

\* the except clause of param_set_parallel: os.remove of the output file,
\* which raises FileNotFoundError when there is none
Except ==
    /\ job.pc = "except"
    /\ job' = IF job.exists[job.input]
              THEN [job EXCEPT !.exists[job.input] = FALSE, !.pc = "loop", !.stmt = 0]
              ELSE [job EXCEPT !.pc = "raised"]
    /\ UNCHANGED <<layervars, mesh, climate, profile, packing, fetch>>

\* all inputs are done
Return ==
    /\ job.pc = "loop"
    /\ job.input > job.n
    /\ job' = [job EXCEPT !.pc = "returned"]
    /\ UNCHANGED <<layervars, mesh, climate, profile, packing, fetch>>

NextRun ==
    \/ BeginRun
    \/ NextInput
    \/ Statement
    \/ Raise
    \/ Except
    \/ Return

SpecRun == InitRun /\ [][NextRun]_vars

---------------------------------------------------------------------------
(* The forcing: Climate.check_ds (pygem_eb/climate.py).  climate holds the  *)
(* Climate object and the call: the dataset cds, one series per variable,   *)
(* each value being "nan" or a number ("val", its size plays no part); the  *)
(* measured variables; the settings read from eb_prms; and what the call    *)
(* did.                                                                     *)

\* self.all_vars
all_vars ==
    <<"temp", "tp", "rh", "wind", "sp", "SWin", "LWin", "bcwet", "bcdry", "dustwet",
      "dustdry">>

\* the value of an arithmetic expression of a and b
NanOp(a, b) == IF a = "nan" \/ b = "nan" THEN "nan" ELSE "val"
\* elementwise on two series, and on a series and a scalar
NanOps(x, y) == [k \in 1..Len(x) |-> NanOp(x[k], y[k])]
NanScale(x, f) == [k \in 1..Len(x) |-> NanOp(x[k], f)]
\* np.any(np.isnan(x)), np.all(np.isnan(x))
AnyNan(x) == \E k \in 1..Len(x) : x[k] = "nan"
AllNan(x) == \A k \in 1..Len(x) : x[k] = "nan"

\* wind and winddir from the u and v components when no wind was loaded
FillWind(cds) ==
    IF AllNan(cds["wind"])
    THEN [cds EXCEPT !["wind"] = NanOps(cds["uwind"], cds["vwind"]),
                     !["winddir"] = NanOps(cds["uwind"], cds["vwind"])]
    ELSE cds

\* Climate.adjust_temp_bias
adjust_temp_bias(cds) == [cds EXCEPT !["temp"] = NanScale(cds["temp"], "val")]

\* Climate.adjust_to_elevation: the pressure ratio is computed from the
\* adjusted temperature
adjust_to_elevation(cds) ==
    [cds EXCEPT !["temp"] = NanScale(cds["temp"], "val"),
                !["tp"] = NanScale(cds["tp"], "val"),
                !["sp"] = NanOps(cds["sp"], NanScale(cds["temp"], "val"))]

\* Climate.adjust_dep with the reduction coefficient f
adjust_dep(cds, f) ==
    [cds EXCEPT !["bcdry"] = NanScale(cds["bcdry"], f),
                !["bcwet"] = NanScale(cds["bcwet"], f)]

\* the dataset when the variables are checked
Adjusted(c) ==
    One({ IF c.reanalysis = "MERRA2" THEN adjust_dep(e, c.dep_factor) ELSE e :
            e \in { adjust_to_elevation(IF c.temp_bias THEN adjust_temp_bias(w) ELSE w) :
                      w \in {FillWind(c.cds)} } })

\* the loop over all_vars: the variables with a missing value, in order
RECURSIVE FailedFrom(_, _)
FailedFrom(cds, i) ==
    IF i >= Len(all_vars) THEN <<>>
    ELSE (IF AnyNan(cds[At(all_vars, i)]) THEN <<At(all_vars, i)>> ELSE <<>>)
            \o FailedFrom(cds, i + 1)

\* failed.remove(var)
RECURSIVE Remove(_, _)
Remove(s, x) ==
    IF s = <<>> THEN <<>>
    ELSE IF Head(s) = x THEN Tail(s) ELSE <<Head(s)>> \o Remove(Tail(s), x)

\* the list without LWin, whatever was measured
WithoutLWin(failed, measured_vars) == Remove(failed, "LWin")

\* net radiation can stand in for incoming longwave
NetRadiationInstead(failed, measured_vars) ==
    IF (\E k \in 1..Len(failed) : failed[k] = "LWin") /\ "NR" \in measured_vars
    THEN Remove(failed, "LWin") ELSE failed

\* Climate.check_ds
check_ds(c) ==
    LET cds == Adjusted(c)
        failed == NetRadiationInstead(FailedFrom(cds, 0), c.measured_vars)
    IN  IF Len(failed) > 0
        THEN [c EXCEPT !.cds = cds, !.failed = failed, !.pc = "exit"]
        ELSE [c EXCEPT !.cds = cds, !.failed = failed, !.pc = "return",
                       !.stored = c.store_climate]

\* series of two time steps
Series == {<<"val", "val">>, <<"nan", "val">>, <<"nan", "nan">>}
\* the variables loaded from the station or the reanalysis
LoadedVars ==
    {"temp", "tp", "rh", "wind", "uwind", "vwind", "sp", "SWin", "LWin", "bcwet",
     "bcdry", "dustwet", "dustdry"}
\* datasets after loading: at most two variables with missing values
Datasets ==
    { [v \in LoadedVars \cup {"winddir"} |->
          IF v = "winddir" THEN <<"nan", "nan">>
          ELSE IF v = a THEN sa ELSE IF v = b THEN sb ELSE <<"val", "val">>] :
        a \in LoadedVars, b \in LoadedVars, sa \in Series, sb \in Series }
MeasuredVars == {{}, {"NR"}, {"LWin"}, {"NR", "LWin"}}

InitClimate ==
    /\ LayersUnused
    /\ mesh = <<>>
    /\ job = <<>>
    /\ profile = <<>>
    /\ packing = <<>>
    /\ fetch = <<>>
    /\ \E cds \in Datasets, measured_vars \in MeasuredVars,
          reanalysis \in {"MERRA2", "ERA5"}, dep_factor \in {"val", "nan"},
          temp_bias \in BOOLEAN, store_climate \in BOOLEAN :
         climate = [cds |-> cds, measured_vars |-> measured_vars,
                    reanalysis |-> reanalysis, dep_factor |-> dep_factor,
                    temp_bias |-> temp_bias, store_climate |-> store_climate,
                    pc |-> "loaded", failed |-> <<>>, stored |-> FALSE]

CheckDs ==
    /\ climate.pc = "loaded"
    /\ climate' = check_ds(climate)
    /\ UNCHANGED <<layervars, mesh, job, profile, packing, fetch>>

NextClimate == CheckDs

SpecClimate == InitClimate /\ [][NextClimate]_vars

---------------------------------------------------------------------------
(* Reference profiles: Layers.initProfilesPiecewise.  profile holds one     *)
(* call: its arguments, and once it is over the array it returned or the    *)
(* exception it raised.                                                     *)

\* the row np.insert would put at z = 0; its result is not assigned
SurfaceRow(varname) ==
    CASE varname = "temp" -> <<Zero, Zero>>
      [] varname = "density" -> <<Zero, IntR(100)>>
      [] OTHER -> <<>>

\* snow_var after the block that handles a profile without a surface value:
\* np.insert returns a new array, snow_var itself stays as it was
AfterInsert(snow_var, varname) ==
    LET inserted == IF Len(snow_var) = 3 /\ SurfaceRow(varname) # <<>>
                    THEN Insert(snow_var, 0, SurfaceRow(varname)) ELSE snow_var
    IN  snow_var

\* slopes[i] and intercepts[i] of the piecewise function, i = 0, 1, 2
Slope(snow_var, i) ==
    DivR(SubR(At(snow_var, i)[2], At(snow_var, i + 1)[2]),
         SubR(At(snow_var, i)[1], At(snow_var, i + 1)[1]))
Intercept(snow_var, i) ==
    SubR(At(snow_var, i + 1)[2], MulR(Slope(snow_var, i), At(snow_var, i + 1)[1]))

\* np.piecewise at one depth
PiecewiseAt(snow_var, z) ==
    One({ AddR(MulR(Slope(snow_var, i), z), Intercept(snow_var, i)) :
            i \in { IF LeqR(z, At(snow_var, 1)[1]) THEN 0
                    ELSE IF LeqR(z, At(snow_var, 2)[1]) THEN 1 ELSE 2 } })

\* Layers.initProfilesPiecewise: the exception raised ("none" if none) and
\* the array returned
initProfilesPiecewise(layerz, snow_var, varname) ==
    IF Len(snow_var) \notin {3, 4}
    THEN [err |-> "AssertionError", layer_var |-> <<>>]
    ELSE IF Len(snow_var) = 3 /\ At(snow_var, 0)[1] # IntR(1)
    THEN [err |-> "AssertionError", layer_var |-> <<>>]
    ELSE IF Len(AfterInsert(snow_var, varname)) < 4
    THEN [err |-> "IndexError", layer_var |-> <<>>]
    ELSE [err |-> "none",
          layer_var |-> [k \in 1..Len(layerz) |->
                            PiecewiseAt(AfterInsert(snow_var, varname), layerz[k])]]

\* turning points below the surface, as (depth, value) rows
TurningPoints ==
    { << <<d1, v1>>, <<IntR(3), v2>>, <<IntR(10), v3>> >> :
        d1 \in {IntR(1), IntR(2), <<1, 2>>},
        v1 \in {IntR(-4), IntR(300)}, v2 \in {IntR(-8), IntR(450)},
        v3 \in {IntR(-10), IntR(700)} }
\* reference profiles of two to five rows
Profiles ==
    TurningPoints
      \cup { << <<Zero, v0>> >> \o tp : v0 \in {Zero, IntR(100)}, tp \in TurningPoints }
      \cup { SubSeq(tp, 1, 2) : tp \in TurningPoints }
      \cup { << <<Zero, Zero>>, <<<<1, 4>>, IntR(-1)>> >> \o tp : tp \in TurningPoints }
\* mid-point depths of the layers to fill
ProfileDepths ==
    { << <<1, 40>>, <<1, 2>> >>, << <<1, 40>>, IntR(2), IntR(5) >>, << IntR(3), IntR(12) >> }

InitProfile ==
    /\ LayersUnused
    /\ mesh = <<>>
    /\ job = <<>>
    /\ climate = <<>>
    /\ packing = <<>>
    /\ fetch = <<>>
    /\ \E snow_var \in Profiles, varname \in {"temp", "density"}, layerz \in ProfileDepths :
         profile = [layerz |-> layerz, snow_var |-> snow_var, varname |-> varname,
                    pc |-> "call", err |-> "none", layer_var |-> <<>>]

InitProfilesPiecewise ==
    /\ profile.pc = "call"
    /\ profile' = [profile EXCEPT
            !.pc = "done",
            !.err = initProfilesPiecewise(profile.layerz, profile.snow_var,
                                          profile.varname).err,
            !.layer_var = initProfilesPiecewise(profile.layerz, profile.snow_var,
                                                profile.varname).layer_var]
    /\ UNCHANGED <<layervars, mesh, job, climate, packing, fetch>>

NextProfile == InitProfilesPiecewise

SpecProfile == InitProfile /\ [][NextProfile]_vars


---------------------------------------------------------------------------
(* The packing of the runs of param_set_parallel.py into one list per       *)
(* process.  packing holds the counts, the lists and the two counters of    *)
(* the loop; the nested loops over sites and parameters are one loop over   *)
(* the runs, i being the number of runs packed so far.  A packed run is     *)
(* its number and the pair (set_no, run_no) that names its output file.     *)

MaxRuns == 8
MaxProcesses == 4

\* n_runs_per_process and n_process_with_extra
RunsPerProcess(n_runs, n_processes) ==
    IF n_runs <= n_processes THEN 0 ELSE n_runs \div n_processes
ProcessWithExtra(n_runs, n_processes) ==
    IF n_runs <= n_processes THEN 0 ELSE n_runs % n_processes

\* n_runs_set of the set the loop is at
RunsOfSet(p) ==
    p.n_runs_per_process + (IF p.set_no < p.n_process_with_extra THEN 1 ELSE 0)

InitPacking ==
    /\ LayersUnused
    /\ \E n_runs \in 1..MaxRuns, n_processes \in 1..MaxProcesses :
         packing = [n_runs |-> n_runs,
                    n_processes |-> n_processes,
                    n_runs_per_process |-> RunsPerProcess(n_runs, n_processes),
                    n_process_with_extra |-> ProcessWithExtra(n_runs, n_processes),
                    packed_vars |-> [k \in 1..n_processes |-> <<>>],
                    run_no |-> 0,
                    set_no |-> 0,
                    i |-> 0,
                    err |-> "none"]
    /\ mesh = <<>>
    /\ job = <<>>
    /\ climate = <<>>
    /\ profile = <<>>
    /\ fetch = <<>>

\* one pass of the innermost loop: the run is named and stored, then the
\* counters move on; packed_vars[set_no] raises IndexError past the last list
PackRun ==
    /\ packing.err = "none"
    /\ packing.i < packing.n_runs
    /\ LET moves == packing.run_no = RunsOfSet(packing) - 1
       IN  packing' =
             IF packing.set_no >= packing.n_processes
             THEN [packing EXCEPT !.err = "IndexError"]
             ELSE [packing EXCEPT
                    !.packed_vars = SetAt(packing.packed_vars, packing.set_no,
                                      Append(At(packing.packed_vars, packing.set_no),
                                             [run |-> packing.i,
                                              out |-> <<packing.set_no, packing.run_no>>])),
                    !.set_no = IF moves THEN packing.set_no + 1 ELSE packing.set_no,
                    !.run_no = (IF moves THEN -1 ELSE packing.run_no) + 1,
                    !.i = packing.i + 1]
    /\ UNCHANGED <<layervars, mesh, job, climate, profile, fetch>>

NextPacking == PackRun

SpecPacking == InitPacking /\ [][NextPacking]_vars

---------------------------------------------------------------------------
(* Climate.get_reanalysis: the variables are fetched by access_cell, one    *)
(* call per file, in worker threads when args.use_threads is set and in     *)
(* line otherwise.  fetch holds one call: the requested variables, the      *)
(* files whose access raises (a failed assert or a file that cannot be      *)
(* read), the position of the main thread, the threads it started, the      *)
(* shared dictionary all_data and the variables of self.cds it wrote.  An   *)
(* exception in a thread ends that thread only; join returns all the same.  *)

\* the variables of one call
Requests ==
    { <<"temp">>, <<"wind">>, <<"temp", "wind">>, <<"wind", "temp">>,
      <<"temp", "rh">>, <<"temp", "wind", "rh">> }

\* the names under which the loops at lines 171 and 196 handle a variable
KeysOf(var) == IF var = "wind" THEN <<"uwind", "vwind">> ELSE <<var>>

RECURSIVE KeysOfAll(_)
KeysOfAll(vs) == IF vs = <<>> THEN <<>> ELSE KeysOf(Head(vs)) \o KeysOfAll(Tail(vs))

FetchKeys == {"temp", "rh", "uwind", "vwind"}

\* ds.values.ravel() of the file of a variable
CellData(key) == <<"data", key>>

InitFetch ==
    /\ LayersUnused
    /\ \E vs \in Requests, use_threads \in BOOLEAN :
         \E fails \in SUBSET {KeysOfAll(vs)[k] : k \in 1..Len(KeysOfAll(vs))} :
           fetch = [vars |-> vs,
                    use_threads |-> use_threads,
                    fails |-> fails,
                    pc |-> "start",
                    i |-> 1,
                    threads |-> <<>>,
                    all_data |-> [k \in FetchKeys |-> "absent"],
                    cds |-> [k \in FetchKeys |-> "nan"]]
    /\ mesh = <<>>
    /\ job = <<>>
    /\ climate = <<>>
    /\ profile = <<>>
    /\ packing = <<>>

\* lines 171-189 for one file: a thread is started, or access_cell is
\* called in line and its exception leaves get_reanalysis
StartAccess ==
    /\ fetch.pc = "start"
    /\ fetch.i <= Len(KeysOfAll(fetch.vars))
    /\ LET key == KeysOfAll(fetch.vars)[fetch.i]
       IN  fetch' =
             IF fetch.use_threads
             THEN [fetch EXCEPT
                     !.threads = Append(fetch.threads, [key |-> key, state |-> "running"]),
                     !.i = fetch.i + 1]
             ELSE IF key \in fetch.fails
             THEN [fetch EXCEPT !.pc = "raised"]
             ELSE [fetch EXCEPT !.all_data[key] = CellData(key), !.i = fetch.i + 1]
    /\ UNCHANGED <<layervars, mesh, job, climate, profile, packing>>

\* access_cell in a worker thread: result_dict[var] is written unless the
\* access raises
AccessCell ==
    /\ \E t \in 1..Len(fetch.threads) :
         /\ fetch.threads[t].state = "running"
         /\ fetch' =
              IF fetch.threads[t].key \in fetch.fails
              THEN [fetch EXCEPT !.threads[t].state = "died"]
              ELSE [fetch EXCEPT !.threads[t].state = "done",
                                 !.all_data[fetch.threads[t].key] =
                                     CellData(fetch.threads[t].key)]
    /\ UNCHANGED <<layervars, mesh, job, climate, profile, packing>>

\* the loop that starts the accesses is over
StartJoin ==
    /\ fetch.pc = "start"
    /\ fetch.i > Len(KeysOfAll(fetch.vars))
    /\ fetch' = [fetch EXCEPT !.pc = IF fetch.use_threads THEN "join" ELSE "store",
                              !.i = 1]
    /\ UNCHANGED <<layervars, mesh, job, climate, profile, packing>>

\* thread.join() of the next thread returns once the thread is over
Join ==
    /\ fetch.pc = "join"
    /\ fetch.i <= Len(fetch.threads)
    /\ fetch.threads[fetch.i].state # "running"
    /\ fetch' = [fetch EXCEPT !.i = fetch.i + 1]
    /\ UNCHANGED <<layervars, mesh, job, climate, profile, packing>>

\* every thread is joined
StartStore ==
    /\ fetch.pc = "join"
    /\ fetch.i > Len(fetch.threads)
    /\ fetch' = [fetch EXCEPT !.pc = "store", !.i = 1]
    /\ UNCHANGED <<layervars, mesh, job, climate, profile, packing>>

\* lines 196-204 for one name: self.cds[varname].values = all_data[var],
\* which raises KeyError when the dictionary has no such key
Store ==
    /\ fetch.pc = "store"
    /\ fetch.i <= Len(KeysOfAll(fetch.vars))
    /\ LET key == KeysOfAll(fetch.vars)[fetch.i]
       IN  fetch' =
             IF fetch.all_data[key] = "absent"
             THEN [fetch EXCEPT !.pc = "raised"]
             ELSE [fetch EXCEPT !.cds[key] = fetch.all_data[key], !.i = fetch.i + 1]
    /\ UNCHANGED <<layervars, mesh, job, climate, profile, packing>>

ReturnFetch ==
    /\ fetch.pc = "store"
    /\ fetch.i > Len(KeysOfAll(fetch.vars))
    /\ fetch' = [fetch EXCEPT !.pc = "returned"]
    /\ UNCHANGED <<layervars, mesh, job, climate, profile, packing>>

NextFetch ==
    \/ StartAccess
    \/ AccessCell
    \/ StartJoin
    \/ Join
    \/ StartStore
    \/ Store
    \/ ReturnFetch

SpecFetch == InitFetch /\ [][NextFetch]_vars

---------------------------------------------------------------------------
(* Properties of the primitives.                                            *)

\* the stored (not derived) values of the layer at index k
LayerAt(s, k) ==
    [T |-> At(s.ltemp, k), w |-> At(s.lwater, k), h |-> At(s.lheight, k),
     t |-> At(s.ltype, k), drym |-> At(s.ldrymass, k),
     refreeze |-> At(s.lrefreeze, k), newsnow |-> At(s.lnewsnow, k),
     grainsize |-> At(s.grainsize, k), BC |-> At(s.lBC, k), dust |-> At(s.ldust, k)]

\* C1: a performed splitLayer(l) followed at once by mergeLayers(l) gives back
\* the layer count and the dry mass, water content and height of layer l, and
\* every other layer keeps all its stored values.
SplitThenMergeRestores ==
    (lastOp.ret = "afterSplit" /\ layers.err = "none") =>
        /\ layers.nlayers = snap[1].nlayers
        /\ At(layers.ldrymass, lastOp.arg) = At(snap[1].ldrymass, lastOp.arg)
        /\ At(layers.lwater, lastOp.arg) = At(snap[1].lwater, lastOp.arg)
        /\ At(layers.lheight, lastOp.arg) = At(snap[1].lheight, lastOp.arg)
        /\ \A k \in (0..(snap[1].nlayers - 1)) \ {lastOp.arg} :
               LayerAt(layers, k) = LayerAt(snap[1], k)

\* a wet layer between two others has been split and merged back
SplitThenMergeDone ==
    /\ lastOp.ret = "afterSplit"
    /\ layers.err = "none"
    /\ layers.nlayers >= 3
    /\ At(snap[1].lwater, lastOp.arg) # Zero

\* the step is a merge of layers l and l+1: a call of mergeLayers, or a
\* merge made by a pass of updateLayers or updateLayerTypes
IsMergeStep(op) == op.op = "mergeLayers" \/ op.ret = "merge"

\* what C2 says of the object before (pre) and after (post) a merge at l
MergeAdds(pre, post, l) ==
    /\ post.nlayers = pre.nlayers - 1
    /\ At(post.ldrymass, l) = AddR(At(pre.ldrymass, l), At(pre.ldrymass, l + 1))
    /\ At(post.lheight, l) = AddR(At(pre.lheight, l), At(pre.lheight, l + 1))
    /\ At(post.lwater, l) = AddR(At(pre.lwater, l), At(pre.lwater, l + 1))
    /\ At(post.ltemp, l) = DivR(AddR(At(pre.ltemp, l), At(pre.ltemp, l + 1)), IntR(2))
    /\ \A k \in 0..(l - 1) : LayerAt(post, k) = LayerAt(pre, k)
    /\ \A k \in (l + 2)..(pre.nlayers - 1) : LayerAt(post, k - 1) = LayerAt(pre, k)

\* C2: a merge of layers l and l+1 leaves one layer less; the survivor, at
\* index l, has the sum of the two dry masses, heights and water contents and
\* the unweighted mean of the two temperatures; the other layers keep their
\* values and their order.
MergeIsAdditive ==
    [][(IsMergeStep(lastOp') /\ layers'.err = "none")
          => MergeAdds(layers, layers', lastOp'.arg)]_vars

\* a merge of two layers that have a layer above and a layer below
MergeDone ==
    /\ lastOp.op = "mergeLayers"
    /\ layers.err = "none"
    /\ lastOp.arg >= 1
    /\ layers.nlayers > lastOp.arg + 1

\* C3: after mergeLayers(l) the density of the survivor is the mass-weighted
\* average of the densities of the two merged layers,
\* (d1*m1 + d2*m2)/(m1 + m2).
MergedDensityIsMassWeighted ==
    [][(lastOp'.op = "mergeLayers" /\ layers'.err = "none")
          => At(layers'.ldensity, lastOp'.arg) =
               DivR(AddR(MulR(At(layers.ldensity, lastOp'.arg),
                              At(layers.ldrymass, lastOp'.arg)),
                         MulR(At(layers.ldensity, lastOp'.arg + 1),
                              At(layers.ldrymass, lastOp'.arg + 1))),
                    AddR(At(layers.ldrymass, lastOp'.arg),
                         At(layers.ldrymass, lastOp'.arg + 1)))]_vars

\* what C4 says of layer l before a split and of one of its halves after
HalfOf(pre, half) ==
    /\ half.drym = DivR(pre.drym, IntR(2))
    /\ half.w = DivR(pre.w, IntR(2))
    /\ half.h = DivR(pre.h, IntR(2))
    /\ half.refreeze = DivR(pre.refreeze, IntR(2))
    /\ half.newsnow = DivR(pre.newsnow, IntR(2))
    /\ half.T = pre.T
    /\ half.t = pre.t
    /\ half.grainsize = pre.grainsize
    /\ half.BC = pre.BC
    /\ half.dust = pre.dust

\* C4: a performed splitLayer(l) leaves at l and l+1 two layers, each with
\* half the dry mass, water, height, refrozen mass and new-snow mass of the
\* original and with its temperature, type, grain size, black carbon and dust.
SplitHalvesAndCopies ==
    [][(lastOp'.op = "splitLayer" /\ lastOp'.ret = "split" /\ layers'.err = "none")
          => /\ HalfOf(LayerAt(layers, lastOp'.arg), LayerAt(layers', lastOp'.arg))
             /\ HalfOf(LayerAt(layers, lastOp'.arg), LayerAt(layers', lastOp'.arg + 1))]_vars

---------------------------------------------------------------------------
(* Properties of the mesh as a whole.                                       *)

\* the step is a call, or a pass of a loop, of an operation of layers.py
IsLayersOp(op) ==
    op.op \in {"addSnow", "addLayers", "splitLayer", "mergeLayers",
               "updateLayers", "updateLayerTypes"}

\* C5: the number of layers never exceeds max_nlayers, whatever sequence of
\* addSnow, addLayers, splitLayer, mergeLayers, updateLayers and
\* updateLayerTypes is run.
LayerCountBounded == layers.nlayers <= max_nlayers

\* C6: splitLayer(l) is skipped exactly when nlayers = max_nlayers: below the
\* maximum it splits, and at the maximum it raises nothing and leaves nlayers
\* and every stored value of every layer as they were.
SplitSkippedOnlyAtMaximum ==
    [][lastOp'.op = "splitLayer"
          => /\ layers.nlayers < max_nlayers
                  => (layers'.err = "none" /\ layers'.nlayers = layers.nlayers + 1)
             /\ layers.nlayers = max_nlayers
                  => /\ layers'.err = "none"
                     /\ layers'.nlayers = layers.nlayers
                     /\ \A k \in 0..(layers.nlayers - 1) :
                            LayerAt(layers', k) = LayerAt(layers, k)]_vars

\* C7: a layer only ever goes from snow to firn and from firn to ice: no layer,
\* and no mass a merge of updateLayers or updateLayerTypes has put into it, was
\* ever in a higher phase than the layer is in now.
PhaseNeverReverts ==
    /\ Len(hrank) = Len(layers.ltype)
    /\ \A k \in DOMAIN hrank : hrank[k] = Rank(layers.ltype[k])

\* updateLayerTypes has promoted a layer and merged it into the one below
PromotedAndMerged ==
    /\ lastOp.op = "updateLayerTypes"
    /\ lastOp.ret = "merge"
    /\ layers.err = "none"

\* the water of every layer is within what the layer can hold
WaterWithinCapacity(s) ==
    \A k \in 0..(s.nlayers - 1) :
        IF At(s.ltype, k) = "ice" THEN At(s.lwater, k) = Zero
        ELSE /\ GeqR(At(s.lwater, k), Zero)
             /\ k < Len(s.irrwatercont)
             /\ LeqR(At(s.lwater, k), At(s.irrwatercont, k))

\* C8: if every snow and firn layer holds between 0 and its irreducible water
\* content and every ice layer holds no water, the same is true after
\* splitLayer, mergeLayers, updateLayers, updateLayerTypes and addSnow.
WaterBoundPreserved ==
    [][(IsLayersOp(lastOp') /\ layers'.err = "none" /\ WaterWithinCapacity(layers))
          => WaterWithinCapacity(layers')]_vars

\* C9: once updateLayerTypes has run after a densification, the next
\* recomputation of the derived properties (density = dry mass / height)
\* leaves no layer denser than density_ice.
DensityAtMostIce ==
    (lastOp.op = "updateLayerTypes" /\ lastOp.ret = "return" /\ layers.err = "none")
        => \A k \in 1..layers.nlayers :
               LeqR(updateLayerProperties(layers).ldensity[k], IntR(density_ice))

\* the height of the snow or firn layer at index i is within the bounds of
\* its index, unless it is too small and the next layer is of another type
HeightInBounds(s, i) ==
    /\ LeqR(At(s.lheight, i), max_heights(i))
    /\ \/ GeqR(At(s.lheight, i), min_heights(i))
       \/ (i + 1 < s.nlayers /\ At(s.ltype, i + 1) # At(s.ltype, i))

\* C10: when updateLayers returns with room left for a split, every snow and
\* firn layer is within the height bounds of its index, but for undersized
\* layers above a layer of another type; and the loop moves on from an index
\* only when it has neither split nor merged there.
ResolutionRestored ==
    [][lastOp'.op = "updateLayers"
          => /\ (lastOp'.ret = "return" /\ (layers'.nlayers + 1) < max_nlayers)
                  => \A i \in 0..(layers'.nlayers - 1) :
                         At(layers'.ltype, i) \in {"snow", "firn"}
                             => HeightInBounds(layers', i)
             /\ (lastOp'.ret \in {"merge", "split"} /\ layers'.err = "none")
                  => layer' = layer]_vars

---------------------------------------------------------------------------
(* Properties of snowfall and of the phase transition.                      *)

\* the layers of pre are those of post from index 1 on, under a new layer 0
ShiftedUnder(pre, post) ==
    /\ post.nlayers = pre.nlayers + 1
    /\ \A k \in 0..(pre.nlayers - 1) : LayerAt(post, k + 1) = LayerAt(pre, k)

MixedInto(pre, post, sf) ==
    IF post.nlayers = pre.nlayers
    THEN At(post.ldrymass, 0) = AddR(At(pre.ldrymass, 0), sf)
    ELSE AddR(At(post.ldrymass, 0), At(post.ldrymass, 1)) = AddR(At(pre.ldrymass, 0), sf)

\* the height of the top layer of pre once the snowfall sf lies on it
GrownHeight(pre, sf) == AddR(At(pre.lheight, 0), DivR(sf, IntR(density_fresh_snow)))

\* C13: when addSnow mixes the snowfall into the top layer and the layer
\* grows past 1.5 times dz_toplayer while the mesh is below max_nlayers, the
\* layer is split: layers 0 and 1 each have half of the old dry mass plus the
\* snowfall and half of the grown height, and there is one layer more; when
\* the layer does not grow past 1.5 times dz_toplayer there is no split.
AddSnowSplitsOversizedTop ==
    [][(lastOp'.op = "addSnow" /\ lastOp'.ret = "False" /\ layers'.err = "none")
          => \A sf \in Snowfalls :
               MixedInto(layers, layers', sf)
                 => /\ (GtR(GrownHeight(layers, sf), MulR(dz_toplayer, <<3, 2>>))
                          /\ layers.nlayers < max_nlayers)
                      => /\ layers'.nlayers = layers.nlayers + 1
                         /\ \A k \in {0, 1} :
                              /\ At(layers'.ldrymass, k) =
                                   DivR(AddR(At(layers.ldrymass, 0), sf), IntR(2))
                              /\ At(layers'.lheight, k) =
                                   DivR(GrownHeight(layers, sf), IntR(2))
                    /\ LeqR(GrownHeight(layers, sf), MulR(dz_toplayer, <<3, 2>>))
                      => layers'.nlayers = layers.nlayers]_vars

\* the loop of updateLayerTypes is at a firn layer that has reached the
\* density of ice and lies on an ice layer
FirnReachedIceOnIce(s, i) ==
    /\ i + 1 < s.nlayers
    /\ At(s.ltype, i) = "firn"
    /\ GeqR(At(s.ldensity, i), IntR(density_ice))
    /\ At(s.ltype, i + 1) = "ice"

\* C14: when updateLayerTypes meets a firn layer of density >= density_ice
\* that lies on an ice layer, the layer becomes ice and is merged into the
\* layer below: there is one layer less, and the survivor is ice, has the
\* dry mass and the height of the two together and the density density_ice.
NewIceMergedAtIceDensity ==
    [][(pc = "updateLayerTypes" /\ lastOp'.op = "updateLayerTypes"
          /\ layers.err = "none" /\ layer < layers.nlayers
          /\ FirnReachedIceOnIce(layers, layer))
          => /\ layers'.err = "none"
             /\ layers'.nlayers = layers.nlayers - 1
             /\ At(layers'.ltype, layer) = "ice"
             /\ At(layers'.ldrymass, layer) =
                    AddR(At(layers.ldrymass, layer), At(layers.ldrymass, layer + 1))
             /\ At(layers'.lheight, layer) =
                    AddR(At(layers.lheight, layer), At(layers.lheight, layer + 1))
             /\ At(layers'.ldensity, layer) = IntR(density_ice)]_vars

---------------------------------------------------------------------------
(* Properties of the column.                                                *)

\* C17: after construction and after every call of addSnow, splitLayer,
\* updateLayers and updateLayerTypes the deepest layer, at index nlayers-1,
\* is ice.
BottomIsIce ==
    layers.err = "none"
        => (layers.nlayers >= 1 /\ At(layers.ltype, layers.nlayers - 1) = "ice")

\* the bottom ice layer has been split in two, and a layer lies above it
BottomIceSplit ==
    /\ lastOp.op = "splitLayer"
    /\ lastOp.ret = "split"
    /\ layers.err = "none"
    /\ lastOp.arg = layers.nlayers - 2
    /\ lastOp.arg >= 1
    /\ At(layers.ltype, layers.nlayers - 1) = "ice"

\* the derived fields of s are what its stored arrays give
DerivedFresh(s) ==
    /\ s.nlayers = Len(s.lheight)
    /\ Len(s.ldepth) = s.nlayers
    /\ Len(s.ldensity) = s.nlayers
    /\ \A i \in 0..(s.nlayers - 1) :
         /\ At(s.ldepth, i) =
              AddR(SumR(SubSeq(s.lheight, 1, i)), DivR(At(s.lheight, i), IntR(2)))
         /\ At(s.ldensity, i) = DivR(At(s.ldrymass, i), At(s.lheight, i))

\* C18: when addLayers, splitLayer, mergeLayers, addSnow, updateLayers or
\* updateLayerTypes has returned, nlayers is the number of layers, the depth
\* of layer i is the sum of the heights above it plus half its own, and its
\* density is its dry mass over its height.
DerivedNeverStale ==
    (pc = "idle" /\ layers.err = "none" /\ IsLayersOp(lastOp)) => DerivedFresh(layers)

\* C22: updateLayers terminates on every mesh whose bottom layer is ice: each
\* pass of its loop merges a layer, splits one or moves on to the next
\* index, also when the mesh is full and the split is skipped (a pass that
\* leaves the mesh and the index as they were is repeated without end).
UpdateLayersTerminates ==
    [][(pc = "updateLayers" /\ pc' = "updateLayers"
          /\ At(layers.ltype, layers.nlayers - 1) = "ice")
        => (layers' # layers \/ layer' > layer)]_vars

\* the per-layer arrays addLayers writes
LayerArrays(s) ==
    <<s.ltemp, s.lwater, s.lheight, s.ltype, s.ldrymass, s.lrefreeze, s.lnewsnow,
      s.grainsize, s.lBC, s.ldust>>

\* C23: addLayers with a frame of k >= 1 layers puts exactly k entries in
\* front of every per-layer array: afterwards each array has nlayers = old
\* nlayers + k entries and the older layers keep their values, k places down.
AddLayersPrependsToEveryArray ==
    [][lastOp'.op = "addLayers"
        => /\ layers'.nlayers = layers.nlayers + lastOp'.arg
           /\ \A a \in 1..Len(LayerArrays(layers)) :
                /\ Len(LayerArrays(layers')[a]) = layers'.nlayers
                /\ \A i \in 1..Len(LayerArrays(layers)[a]) :
                     i + lastOp'.arg \in DOMAIN LayerArrays(layers')[a]
                     /\ LayerArrays(layers')[a][i + lastOp'.arg] = LayerArrays(layers)[a][i]]_vars

\* C24: after the construction and after every call of addSnow, splitLayer,
\* mergeLayers, updateLayers and updateLayerTypes, irrwatercont has one entry
\* per layer, and the entry of a layer is 0 exactly when the layer is ice.
IrrWaterAlignedWithTypes ==
    (pc = "idle" /\ layers.err = "none") =>
        /\ Len(layers.irrwatercont) = layers.nlayers
        /\ \A i \in 1..Len(layers.irrwatercont) :
             i \in DOMAIN layers.ltype
             /\ (layers.irrwatercont[i] = Zero <=> layers.ltype[i] = "ice")

\* height and dry mass of the ice layers, top down
IceOf(s) ==
    [k \in 1..Len(Where(s.ltype, "ice")) |->
        <<At(s.lheight, At(Where(s.ltype, "ice"), k - 1)),
          At(s.ldrymass, At(Where(s.ltype, "ice"), k - 1))>>]

\* C25: updateLayers never splits or merges an ice layer and never merges
\* across a phase boundary: each merge of its loop joins two snow layers or
\* two firn layers, every pass leaves the number, the heights and the dry
\* masses of the ice layers as they were, and an undersized snow or firn
\* layer above a layer of another type is left unchanged.
UpdateLayersKeepsPhases ==
    [][(pc = "updateLayers" /\ pc' = "updateLayers" /\ layers'.err = "none")
        => /\ lastOp'.ret = "merge"
                => /\ At(layers.ltype, layer) \in {"snow", "firn"}
                   /\ At(layers.ltype, layer + 1) = At(layers.ltype, layer)
                   /\ layers'.nlayers = layers.nlayers - 1
           /\ lastOp'.ret = "split" => At(layers.ltype, layer) \in {"snow", "firn"}
           /\ IceOf(layers') = IceOf(layers)
           /\ (/\ At(layers.ltype, layer) \in {"snow", "firn"}
               /\ LtR(At(layers.lheight, layer), min_heights(layer))
               /\ At(layers.ltype, layer + 1) # At(layers.ltype, layer))
                => layers' = layers]_vars

\* a pass of updateLayers has merged an undersized layer into the next one
UpdateLayersMerged ==
    /\ lastOp.op = "updateLayers"
    /\ lastOp.ret = "merge"
    /\ layers.err = "none"

\* C26: getGrainSize changes the grain size of snow layers only: with snow
\* in the column, a layer whose grain size the call changed is a snow layer
\* with its midpoint above max_pen_depth, so no firn or ice layer changes;
\* without snow but with firn, the firn layers are at 1000 afterwards; with
\* ice only, the ice layers are at 1500.
GrainSizeOfSnowOnly ==
    [][(lastOp'.op = "getGrainSize" /\ layers' # layers /\ layers'.err = "none")
        => IF Len(layers.snow_idx) > 0
           THEN \A i \in 0..(layers.nlayers - 1) :
                   At(layers'.grainsize, i) # At(layers.grainsize, i)
                     => /\ At(layers.ltype, i) = "snow"
                        /\ LtR(At(layers.ldepth, i), max_pen_depth)
           ELSE IF Len(layers.firn_idx) > 0
           THEN \A i \in 0..(layers.nlayers - 1) :
                   At(layers.ltype, i) = "firn"
                     => At(layers'.grainsize, i) = IntR(1000)
           ELSE \A i \in 0..(layers.nlayers - 1) :
                   At(layers'.grainsize, i) = IntR(1500)]_vars

---------------------------------------------------------------------------
(* Properties of the initial mesh.                                          *)

\* sum over k < n of dz_toplayer * exp(k * layer_growth)
RECURSIVE PartialSum(_, _)
PartialSum(prms, n) ==
    IF n = 0 THEN Zero
    ELSE AddR(PartialSum(prms, n - 1), MulR(prms.dz_toplayer, PowR(prms.growth, n - 1)))

\* the heights of the layers of one type in a result of getLayers
HeightsOf(out, type) ==
    [k \in 1..Len(Where(out.layertype, type)) |->
        At(out.layerh, At(Where(out.layertype, type), k - 1))]

\* C15: for a snow depth D > 0 getLayers returns n snow layers, n the
\* smallest count whose untruncated heights dz_toplayer * exp(k * growth)
\* reach D; all but the last have exactly those heights, the last is cut
\* short, every snow height is positive and the snow heights sum to D.
SnowMeshGeometric ==
    (Len(mesh.out) = 1 /\ GtR(mesh.sfi_depth[1], Zero)) =>
        LET h == HeightsOf(mesh.out[1], "snow")
            n == Len(h)
            D == mesh.sfi_depth[1]
        IN  /\ n >= 1
            /\ GeqR(PartialSum(mesh.prms, n), D)
            /\ LtR(PartialSum(mesh.prms, n - 1), D)
            /\ \A k \in 1..(n - 1) :
                  h[k] = MulR(mesh.prms.dz_toplayer, PowR(mesh.prms.growth, k - 1))
            /\ LeqR(h[n], MulR(mesh.prms.dz_toplayer, PowR(mesh.prms.growth, n - 1)))
            /\ \A k \in 1..n : GtR(h[k], Zero)
            /\ SumR(h) = D

\* getLayers has returned several snow layers, the last one cut short
SnowMeshTruncated ==
    /\ Len(mesh.out) = 1
    /\ Len(HeightsOf(mesh.out[1], "snow")) >= 3
    /\ LtR(At(HeightsOf(mesh.out[1], "snow"), Len(HeightsOf(mesh.out[1], "snow")) - 1),
           MulR(mesh.prms.dz_toplayer,
                PowR(mesh.prms.growth, Len(HeightsOf(mesh.out[1], "snow")) - 1)))

\* C16: in both ice modes every height getLayers returns is positive, the
\* ice heights sum to the ice depth, all heights sum to snow + firn + ice
\* depth, and the mid-point depths increase strictly with the index.
MeshHeightsConsistent ==
    (Len(mesh.out) = 1 /\ mesh.out[1].err = "none") =>
        LET out == mesh.out[1]
        IN  /\ \A k \in 1..Len(out.layerh) : GtR(out.layerh[k], Zero)
            /\ SumR(HeightsOf(out, "ice")) = mesh.sfi_depth[3]
            /\ SumR(out.layerh) = SumR(mesh.sfi_depth)
            /\ \A k \in 1..(Len(out.layerz) - 1) : LtR(out.layerz[k], out.layerz[k + 1])

\* C27: for a bin without snow (snow depth 0, firn depth >= 0, ice depth
\* > 0) getLayers completes without error and returns no snow layer, firn
\* layers that sum to the firn depth and ice layers that sum to the ice
\* depth.
SnowFreeMeshBuilt ==
    (Len(mesh.out) = 1 /\ mesh.sfi_depth[1] = Zero) =>
        LET out == mesh.out[1]
        IN  /\ out.err = "none"
            /\ Where(out.layertype, "snow") = <<>>
            /\ SumR(HeightsOf(out, "firn")) = mesh.sfi_depth[2]
            /\ SumR(HeightsOf(out, "ice")) = mesh.sfi_depth[3]

---------------------------------------------------------------------------
(* Properties of the scripts and of the forcing.                            *)

\* C19: in each of the three scripts, once a run has failed with an
\* exception (and the except clause, where there is one, has finished), no
\* output file of that run is on disk.
NoFileAfterFailedRun ==
    \A k \in 1..job.n :
        (job.failed[k] /\ ~(job.pc = "except" /\ job.input = k)) => ~job.exists[k]

\* the forcing variables the model requires
Required ==
    {"temp", "tp", "rh", "wind", "sp", "SWin", "LWin", "bcwet", "bcdry", "dustwet",
     "dustdry"}

\* a required variable of the dataset still has a missing value, LWin not
\* counting when NR was measured
MissingRequired(c) ==
    \E v \in Required :
        /\ \E k \in 1..Len(c.cds[v]) : c.cds[v][k] = "nan"
        /\ ~(v = "LWin" /\ "NR" \in c.measured_vars)

\* C20: check_ds calls exit exactly when a required forcing variable still
\* has a missing value, LWin being excused when NR is a measured variable,
\* and the dataset is stored only when no required variable is missing.
CheckDsAbortsOnMissing ==
    climate.pc # "loaded" =>
        /\ (climate.pc = "exit") <=> MissingRequired(climate)
        /\ climate.stored => ~MissingRequired(climate)

\* check_ds has called exit because incoming longwave is missing and net
\* radiation was not measured
AbortedOnMissingLWin ==
    /\ climate.pc = "exit"
    /\ climate.failed = <<"LWin">>

\* the runs of list k
PackedIn(p, k) == { p.packed_vars[k][j] : j \in 1..Len(p.packed_vars[k]) }

\* C28: when the packing loop is over, every run is in exactly one of the
\* n_processes lists (no error of the list index), the sizes of the lists
\* differ by at most one, and no two runs have the same (set_no, run_no).
PackingBalanced ==
    (packing.i = packing.n_runs \/ packing.err # "none") =>
        LET sets == 1..packing.n_processes
        IN  /\ packing.err = "none"
            /\ \A r \in 0..(packing.n_runs - 1) :
                  Cardinality({ k \in sets :
                      \E e \in PackedIn(packing, k) : e.run = r }) = 1
            /\ \A k \in sets, m \in sets :
                  Len(packing.packed_vars[k]) - Len(packing.packed_vars[m]) <= 1
            /\ \A k \in sets, m \in sets :
                  \A a \in PackedIn(packing, k), b \in PackedIn(packing, m) :
                      a.out = b.out => a.run = b.run

\* the same when there are more runs than processes
PackingBalancedWhenMore ==
    packing.n_runs > packing.n_processes => PackingBalanced

\* C29: in param_set_parallel.run_model_parallel a run is attempted at most
\* 6 times, and no failure makes the worker leave the function while runs
\* of its list are still to come.
FailedRunNeverEndsWorker ==
    job.path = "param_set_parallel" =>
        /\ job.n_iters <= 6
        /\ job.pc = "raised" => job.input = job.n

\* what the execution without threads leaves in self.cds: access_cell
\* raises out of the first loop before anything is stored, or every
\* requested variable is stored
SequentialCds(f) ==
    IF \E k \in 1..Len(KeysOfAll(f.vars)) : KeysOfAll(f.vars)[k] \in f.fails
    THEN [k \in FetchKeys |-> "nan"]
    ELSE [k \in FetchKeys |->
            IF \E j \in 1..Len(KeysOfAll(f.vars)) : KeysOfAll(f.vars)[j] = k
            THEN CellData(k) ELSE "nan"]

\* C30: with use_threads one thread is started per requested file (two for
\* wind), no two threads write the same key, all_data is read only after
\* every started thread is over, and when get_reanalysis has ended, in
\* whatever order the threads ran, self.cds is what the execution without
\* threads leaves.
ThreadedFetchAsSequential ==
    /\ (fetch.use_threads /\ fetch.pc # "start") =>
          /\ Len(fetch.threads) = Len(KeysOfAll(fetch.vars))
          /\ \A t \in 1..Len(fetch.threads) :
                fetch.threads[t].key = KeysOfAll(fetch.vars)[t]
          /\ \A t \in 1..Len(fetch.threads), u \in 1..Len(fetch.threads) :
                fetch.threads[t].key = fetch.threads[u].key => t = u
    /\ (fetch.use_threads /\ fetch.pc \in {"store", "returned", "raised"}) =>
          \A t \in 1..Len(fetch.threads) : fetch.threads[t].state # "running"
    /\ fetch.pc \in {"returned", "raised"} => fetch.cds = SequentialCds(fetch)

\* the same when no access raises
ThreadedFetchAsSequentialOnSuccess ==
    fetch.fails = {} => ThreadedFetchAsSequential

---------------------------------------------------------------------------
(* Properties of the reference profiles.                                    *)

\* the value at depth z on the line through the rows a and b
OnLine(a, b, z) ==
    AddR(a[2], MulR(SubR(b[2], a[2]), DivR(SubR(z, a[1]), SubR(b[1], a[1]))))

\* the three-segment profile through four rows, at depth z
ThreeSegments(rows, z) ==
    IF LeqR(z, rows[2][1]) THEN OnLine(rows[1], rows[2], z)
    ELSE IF LeqR(z, rows[3][1]) THEN OnLine(rows[2], rows[3], z)
    ELSE OnLine(rows[3], rows[4], z)

\* the four rows of an accepted profile: as given, or with the surface row
\* (0 C, or 100 kg m-3) put first
FourRows(snow_var, varname) ==
    IF Len(snow_var) = 4 THEN snow_var
    ELSE << IF varname = "temp" THEN <<Zero, Zero>> ELSE <<Zero, IntR(100)>> >> \o snow_var

\* a profile of four rows, or of three rows starting at depth 1.0
ProfileAccepted(snow_var) ==
    \/ Len(snow_var) = 4
    \/ Len(snow_var) = 3 /\ snow_var[1][1] = IntR(1)

\* C21: initProfilesPiecewise returns the three-segment profile for a
\* reference profile of four rows and for one of three rows that starts at
\* depth 1.0, the surface row being added to the latter; any other profile
\* ends in the assertion error.
ProfileShapeHandled ==
    profile.pc = "done" =>
        IF ProfileAccepted(profile.snow_var)
        THEN /\ profile.err = "none"
             /\ profile.layer_var =
                  [k \in 1..Len(profile.layerz) |->
                      ThreeSegments(FourRows(profile.snow_var, profile.varname),
                                    profile.layerz[k])]
        ELSE profile.err = "AssertionError"

=============================================================================
